---- MODULE Spec2Model ----
(***************************************************************************)
(* A model of the issue-remediation pipeline of strato-fix-all-the-things. *)
(*                                                                         *)
(* Specification Spec follows one issue through run.py's process_issue:    *)
(* fetching the issue, preparing the feature branch, the pipeline          *)
(* (triage -> research -> fix -> review, with the bounded fix/review       *)
(* revision loop), the metrics record and the success / skip / failure     *)
(* handlers.  Each stage runs through Agent.execute (src/agents/base.py),  *)
(* whose two save_state calls are modelled as writes to `disk`.            *)
(*                                                                         *)
(* Confidences are numbers in hundredths (0.6 is 60).  The text produced   *)
(* by the external agent process is untrusted: the model draws the         *)
(* process outcome, the outcome of the extraction and the fields of the    *)
(* extracted object from small sets.                                       *)
(*                                                                         *)
(* src/pipeline.py and src/agents/fix.py are not part of the sources at    *)
(* hand: the Pipeline controller and the Fix stage are modelled from       *)
(* sections 4.3 and 8 of the specification, and are marked as such.        *)
(***************************************************************************)
EXTENDS Integers, Sequences, FiniteSets, TLC

VARIABLES
    cfg,        \* Config: min_triage_confidence, max_fix_review_iterations
    pc,         \* position inside process_issue / Pipeline.run / Agent.execute
    stage,      \* the stage attempt the pipeline is at
    states,     \* previous_states: agent name -> AgentState
    disk,       \* <agent>.state.json: status of the last persisted snapshot
    saves,      \* save_state calls made by the current execute()
    lastIn,     \* what the external process and the extraction produced
    lastRun,    \* what run() did inside the current execute(): returned or raised
    pipeline,   \* PipelineState
    handler,    \* the handler process_issue dispatched to
    skipPath,   \* the branch handle_skip took
    effects,    \* calls made on the git / tracker collaborators
    metrics,    \* status written to metrics.jsonl ("none" before)
    result,     \* what process_issue returned ("raised" when it raised)
    calls,      \* run_claude calls made by the current execute()
    ex,         \* the output extractor applied to one process output
    rc,         \* one call of run_claude: its attempts, sleeps and outcome
    lk,         \* concurrent invocations of main and the workspace they share
    bt,         \* one invocation of main: its batch of issues and its workspace
    sv,         \* one save_state call and the state file it writes
    rj,         \* one call of Agent.run_claude_with_json
    gh,         \* one call of GitHubClient._run_gh
    sn          \* one call of sanitize_for_prompt or sanitize_label

\* the variables of one issue's run through process_issue
pvars == <<cfg, pc, stage, states, disk, saves, lastIn, lastRun, pipeline,
           handler, skipPath, effects, metrics, result, calls>>

vars == <<cfg, pc, stage, states, disk, saves, lastIn, lastRun, pipeline,
          handler, skipPath, effects, metrics, result, calls, ex, rc, lk, bt, sv,
          rj, gh, sn>>

-----------------------------------------------------------------------------
(* Bounds and program constants *)

\* largest max_fix_review_iterations explored
MaxIterBound == 3

\* Config.min_triage_confidence default (0.6)
MinTriageDefault == 60
\* Config.max_fix_review_iterations default
MaxFixReviewIterationsDefault == 3
\* confidence of the substitute result when extraction found nothing (0.3)
FallbackConfidence == 30
\* default of data.get("confidence", 0.5) in triage, research and review
MissingConfidence == 50
\* _parse_float's upper limit for a threshold (1.0)
MaxThreshold == 100

-----------------------------------------------------------------------------
(* Data model: src/models.py *)

Classification ==
    {"FIXABLE_CODE", "FIXABLE_CONFIG", "NEEDS_HUMAN", "NEEDS_CLARIFICATION",
     "OUT_OF_SCOPE", "DUPLICATE"}

Fixable == {"FIXABLE_CODE", "FIXABLE_CONFIG"}

AgentStatus == {"pending", "running", "success", "failed", "skipped"}

PipelineStatus == {"running", "success", "failed", "skipped", "blocked"}

AgentNames == {"triage", "research", "fix", "review"}

\* the result payload of a stage: the keys the pipeline and the handlers read
EmptyData ==
    [hasConf |-> FALSE, conf |-> 0, cls |-> "", approved |-> FALSE,
     verdict |-> "", concerns |-> "", changed |-> FALSE, err |-> ""]

\* AgentState as Agent.__init__ builds it
NewAgentState ==
    [status |-> "pending", confidence |-> 0, error |-> "", data |-> EmptyData]

\* no agent of that name was constructed in this run
NoAgentState == [NewAgentState EXCEPT !.status = "absent"]

ErrorData(msg) == [EmptyData EXCEPT !.err = msg]

Returned(status, data) ==
    [kind |-> "ret", status |-> status, data |-> data, msg |-> ""]

Raised(msg) ==
    [kind |-> "raise", status |-> "", data |-> EmptyData, msg |-> msg]

NoRun == [kind |-> "none", status |-> "", data |-> EmptyData, msg |-> ""]

-----------------------------------------------------------------------------
(* What the external agent process and the extraction can produce *)

\* message of the AttributeError raised when a line of the output is valid
\* JSON but not an object (msg.get on a number, a string, a list or null)
ScanErrorMsg == "object has no attribute get"

PromptMissingMsg == "Prompt template not found"

TimeoutMsg == "Claude timed out"

ExitMsg == "Claude CLI failed"

\* one invocation of a stage: was the prompt template there, how did the
\* process runner end, how did the extraction end, and the top-level keys of
\* the extracted object.  proc2 / ext2 are the stricter-prompt retry of
\* run_claude_with_json.
BaseOut ==
    [prompt |-> "ok", proc |-> "ok", ext |-> "found",
     proc2 |-> "none", ext2 |-> "none",
     hasCls |-> FALSE, cls |-> "", hasConf |-> FALSE, conf |-> 0,
     approved |-> "absent", hasVerdict |-> FALSE, verdict |-> "",
     concerns |-> "", changed |-> FALSE]

NoInput == [BaseOut EXCEPT !.prompt = "none", !.proc = "none", !.ext = "none"]

\* the invocations that produce no object
FailOutcomes ==
    {[BaseOut EXCEPT !.prompt = "missing", !.proc = "none", !.ext = "none"]}
    \cup {[BaseOut EXCEPT !.proc = p, !.ext = "none"] :
            p \in {"fail", "timeout", "scan_error"}}
    \cup {[BaseOut EXCEPT !.ext = e] : e \in {"notfound", "scan_error"}}

\* confidences the triage output may carry (150: a producer reporting 1.5)
TriageConfs == {59, 60, 61, 99, 100, 150}

\* labels the triage output may carry: the six of Classification and one
\* that is none of them
TriageLabels == Classification \cup {"WONTFIX"}

TriageOutcomes ==
    FailOutcomes
    \cup {[BaseOut EXCEPT !.hasCls = TRUE, !.cls = l, !.hasConf = TRUE, !.conf = c] :
            l \in TriageLabels, c \in TriageConfs}
    \cup {[BaseOut EXCEPT !.hasCls = TRUE, !.cls = l] : l \in TriageLabels}
    \cup {[BaseOut EXCEPT !.hasConf = TRUE, !.conf = c] : c \in TriageConfs}

ResearchConfs == {10, 40, 90}

ResearchOutcomes ==
    FailOutcomes
    \cup {[BaseOut EXCEPT !.hasConf = TRUE, !.conf = c] : c \in ResearchConfs}
    \cup {BaseOut}

FixConfs == {70}

FixOutcomes ==
    FailOutcomes
    \cup {[BaseOut EXCEPT !.hasConf = TRUE, !.conf = c, !.changed = ch] :
            c \in FixConfs, ch \in BOOLEAN}

\* what a review says: approved is the JSON value of the top-level key
\* ("str": a non-empty string such as "no"; "absent": no such key)
ReviewSayings ==
    {[BaseOut EXCEPT !.approved = a, !.hasVerdict = TRUE, !.verdict = v,
                     !.concerns = c, !.hasConf = TRUE, !.conf = 80] :
        a \in {"true", "false", "str"},
        v \in {"REQUEST_CHANGES"}, c \in {"c1", "c2"}}
    \cup {[BaseOut EXCEPT !.approved = "false", !.hasVerdict = TRUE,
                          !.verdict = "REJECT", !.concerns = "c1"]}
    \cup {[BaseOut EXCEPT !.approved = "absent", !.concerns = "c2",
                          !.hasConf = TRUE, !.conf = 20]}

\* a first call that found nothing is followed by the retry call
ReviewOutcomes ==
    (FailOutcomes \ {[BaseOut EXCEPT !.ext = "notfound"]})
    \cup ReviewSayings
    \cup {[BaseOut EXCEPT !.ext = "notfound", !.proc2 = p] :
            p \in {"fail", "timeout", "scan_error"}}
    \cup {[BaseOut EXCEPT !.ext = "notfound", !.proc2 = "ok", !.ext2 = e] :
            e \in {"notfound", "scan_error"}}
    \cup {[s EXCEPT !.ext = "notfound", !.proc2 = "ok", !.ext2 = "found"] :
            s \in {s \in ReviewSayings : s.concerns = "c1"}}

-----------------------------------------------------------------------------
(* The stages' run(): src/agents/triage.py, research.py, review.py *)

\* how a call of run_claude made directly by a stage ends, before any
\* extraction: "go" when it returned success=True
ClaudeCall(proc) ==
    CASE proc = "timeout"    -> Returned("failed", ErrorData(TimeoutMsg))
      [] proc = "fail"       -> Returned("failed", ErrorData(ExitMsg))
      [] proc = "scan_error" -> Raised(ScanErrorMsg)
      [] OTHER               -> [NoRun EXCEPT !.kind = "go"]

\* a parse that takes an object without the top-level key as fixable
ParseClassificationTrustsNested(o) ==
    LET classification_str == IF o.hasCls THEN o.cls ELSE "FIXABLE_CODE"
    IN  IF classification_str \in Classification
        THEN classification_str
        ELSE "NEEDS_CLARIFICATION"

\* Classification(classification_str), NEEDS_CLARIFICATION on ValueError
ParseClassification(o) ==
    LET classification_str ==
            IF o.hasCls THEN o.cls ELSE "NEEDS_CLARIFICATION"
    IN  IF classification_str \in Classification
        THEN classification_str
        ELSE "NEEDS_CLARIFICATION"

\* float(data.get("confidence", 0.5))
ParseConfidence(o) == IF o.hasConf THEN o.conf ELSE MissingConfidence

ShouldProceedAbove(classification, confidence, minConf) ==
    classification \in Fixable /\ confidence > minConf

ShouldProceedFixed(classification, confidence, minConf) ==
    classification \in Fixable /\ confidence >= MinTriageDefault

ShouldProceed(classification, confidence, minConf) ==
    classification \in Fixable /\ confidence >= minConf

TriageGate(o, minConf) ==
    LET data == IF o.ext = "notfound"
                THEN [o EXCEPT !.hasCls = TRUE, !.cls = "NEEDS_CLARIFICATION",
                               !.hasConf = TRUE, !.conf = FallbackConfidence]
                ELSE o
        classification == ParseClassification(data)
        confidence == ParseConfidence(data)
        should_proceed == ShouldProceed(classification, confidence, minConf)
    IN  Returned(IF should_proceed THEN "success" ELSE "skipped",
                 [EmptyData EXCEPT !.cls = classification, !.hasConf = TRUE,
                                   !.conf = confidence])

TriageRun(o, minConf) ==
    IF o.prompt = "missing" THEN Raised(PromptMissingMsg)
    ELSE IF ClaudeCall(o.proc).kind # "go" THEN ClaudeCall(o.proc)
    ELSE IF o.ext = "scan_error" THEN Raised(ScanErrorMsg)
    ELSE TriageGate(o, minConf)

ResearchResult(o) ==
    LET data == IF o.ext = "notfound"
                THEN [o EXCEPT !.hasConf = TRUE, !.conf = FallbackConfidence]
                ELSE o
        confidence == ParseConfidence(data)
    IN  Returned("success",
                 [EmptyData EXCEPT !.hasConf = TRUE, !.conf = confidence])

ResearchRunNoPrecheck(o, triage_state) ==
    IF o.prompt = "missing" THEN Raised(PromptMissingMsg)
    ELSE IF ClaudeCall(o.proc).kind # "go" THEN ClaudeCall(o.proc)
    ELSE IF o.ext = "scan_error" THEN Raised(ScanErrorMsg)
    ELSE ResearchResult(o)

ResearchRun(o, triage_state) ==
    IF triage_state.status # "success"
    THEN Returned("failed", ErrorData("Triage not completed"))
    ELSE IF o.prompt = "missing" THEN Raised(PromptMissingMsg)
    ELSE IF ClaudeCall(o.proc).kind # "go" THEN ClaudeCall(o.proc)
    ELSE IF o.ext = "scan_error" THEN Raised(ScanErrorMsg)
    ELSE ResearchResult(o)

\* Python truth value of data.get("approved", False)
Truthy(approved) == approved \in {"true", "str"}

ReviewVerdictFails(o) ==
    LET approved == Truthy(o.approved)
        verdict == IF o.hasVerdict THEN o.verdict ELSE "UNKNOWN"
        confidence == ParseConfidence(o)
    IN  Returned(IF approved THEN "success" ELSE "failed",
                 [EmptyData EXCEPT !.approved = approved, !.hasConf = TRUE,
                                   !.conf = confidence, !.verdict = verdict,
                                   !.concerns = o.concerns])

ReviewVerdict(o) ==
    LET approved == Truthy(o.approved)
        verdict == IF o.hasVerdict THEN o.verdict ELSE "UNKNOWN"
        confidence == ParseConfidence(o)
    IN  Returned(IF approved THEN "success" ELSE "skipped",
                 [EmptyData EXCEPT !.approved = approved, !.hasConf = TRUE,
                                   !.conf = confidence, !.verdict = verdict,
                                   !.concerns = o.concerns])

\* Agent.run_claude_with_json followed by ReviewAgent.run's handling of it
ReviewRun(o, fix_state) ==
    IF fix_state.status # "success"
    THEN Returned("failed", ErrorData("Fix not completed"))
    ELSE IF o.prompt = "missing" THEN Raised(PromptMissingMsg)
    ELSE IF ClaudeCall(o.proc).kind # "go" THEN ClaudeCall(o.proc)
    ELSE IF o.ext = "scan_error" THEN Raised(ScanErrorMsg)
    ELSE IF o.ext = "found" THEN ReviewVerdict(o)
    ELSE IF ClaudeCall(o.proc2).kind # "go" THEN ClaudeCall(o.proc2)
    ELSE IF o.ext2 = "scan_error" THEN Raised(ScanErrorMsg)
    ELSE IF o.ext2 = "found" THEN ReviewVerdict(o)
    ELSE Returned("failed", ErrorData("Review output missing required JSON"))

\* the Fix stage (initial and revision mode): it fails with the process,
\* is skipped when it made no effective change, and succeeds otherwise
FixRun(o) ==
    IF o.prompt = "missing" THEN Raised(PromptMissingMsg)
    ELSE IF ClaudeCall(o.proc).kind # "go" THEN ClaudeCall(o.proc)
    ELSE IF o.ext # "found"
    THEN Returned("failed", ErrorData("Fix output missing required JSON"))
    ELSE Returned(IF o.changed THEN "success" ELSE "skipped",
                  [EmptyData EXCEPT !.changed = o.changed,
                                    !.hasConf = o.hasConf, !.conf = o.conf])

\* the calls of run_claude a stage's run() makes: none when its precondition
\* fails or the prompt template is missing, a second one for the
\* stricter-prompt retry of run_claude_with_json
TriageCalls(o) == IF o.prompt = "missing" THEN 0 ELSE 1

ResearchCalls(o, triage_state) ==
    IF triage_state.status # "success" THEN 0
    ELSE IF o.prompt = "missing" THEN 0
    ELSE 1

ReviewCalls(o, fix_state) ==
    IF fix_state.status # "success" THEN 0
    ELSE IF o.prompt = "missing" THEN 0
    ELSE IF o.proc = "ok" /\ o.ext = "notfound" THEN 2
    ELSE 1

FixCalls(o) == IF o.prompt = "missing" THEN 0 ELSE 1

-----------------------------------------------------------------------------
(* Agent.execute: src/agents/base.py *)

\* the agent object a stage attempt runs: a revision is the fix agent again
AgentOf(s) == IF s = "fix-revision" THEN "fix" ELSE s

\* self.state.confidence = data.get("confidence", 0.0)
DeriveConfidence(data) == IF data.hasConf THEN data.conf ELSE 0

\* lines 161-163 and 173-174: the AgentState after run() returned or raised
AfterRunLosesMessage(st, r) ==
    IF r.kind = "ret"
    THEN [st EXCEPT !.status = r.status, !.data = r.data,
                    !.confidence = DeriveConfidence(r.data)]
    ELSE [st EXCEPT !.status = "failed", !.error = "stage failed"]

AfterRunKeepsRunning(st, r) ==
    IF r.kind = "ret"
    THEN [st EXCEPT !.status = r.status, !.data = r.data,
                    !.confidence = DeriveConfidence(r.data)]
    ELSE [st EXCEPT !.error = r.msg]

AfterRunNoConfidence(st, r) ==
    IF r.kind = "ret"
    THEN [st EXCEPT !.status = r.status, !.data = r.data]
    ELSE [st EXCEPT !.status = "failed", !.error = r.msg]

AfterRun(st, r) ==
    IF r.kind = "ret"
    THEN [st EXCEPT !.status = r.status, !.data = r.data,
                    !.confidence = DeriveConfidence(r.data)]
    ELSE [st EXCEPT !.status = "failed", !.error = r.msg]

\* Agent.__init__ and the head of execute(): a fresh AgentState, set to
\* running and persisted before run() is invoked
ExecuteBegin(a) ==
    /\ states' = [states EXCEPT ![a] = [NewAgentState EXCEPT !.status = "running"]]
    /\ disk' = [disk EXCEPT ![a] = "running"]
    /\ saves' = 1
    /\ lastRun' = NoRun
    /\ lastIn' = NoInput

\* save_state() after the try block: the snapshot carries the final status
SaveFinalSkipped(a, st) ==
    /\ disk' = disk
    /\ saves' = saves

SaveFinal(a, st) ==
    /\ disk' = [disk EXCEPT ![a] = st.status]
    /\ saves' = saves + 1

\* run() has ended as r: the tail of execute()
ExecuteEnd(a, o, r) ==
    /\ states' = [states EXCEPT ![a] = AfterRun(states[a], r)]
    /\ SaveFinal(a, AfterRun(states[a], r))
    /\ lastRun' = r
    /\ lastIn' = o

-----------------------------------------------------------------------------
(* The Pipeline controller (specification sections 3, 4.3 and 8) *)

\* human-readable explanation of a classification, used as failure_reason
ClassificationReason(cls) ==
    CASE cls = "NEEDS_HUMAN"         -> "needs human review"
      [] cls = "NEEDS_CLARIFICATION" -> "needs more information"
      [] cls = "OUT_OF_SCOPE"        -> "out of scope"
      [] cls = "DUPLICATE"           -> "duplicate"
      [] cls = "FIXABLE_CODE"        -> "fixable code, low confidence"
      [] cls = "FIXABLE_CONFIG"      -> "fixable config, low confidence"
      [] OTHER                       -> "not classified"

NewPipelineState ==
    [status |-> "running", agents_completed |-> <<>>, failure_reason |-> {},
     aggregate_confidence |-> [num |-> 0, den |-> 1],
     confidence_breakdown |-> [a \in {} |-> 0], iteration |-> 1]

SucceededAgents(sts) == {a \in AgentNames : sts[a].status = "success"}

RECURSIVE SumConfidence(_, _)
SumConfidence(sts, S) ==
    IF S = {} THEN 0
    ELSE LET a == CHOOSE x \in S : TRUE
         IN  sts[a].confidence + SumConfidence(sts, S \ {a})

\* the mean as a fraction num / den; 0 when nothing contributes
MeanOver(sts, S) ==
    IF S = {} THEN [num |-> 0, den |-> 1]
    ELSE [num |-> SumConfidence(sts, S), den |-> Cardinality(S)]

Contributing(sts) == SucceededAgents(sts)

\* what the controller does with the AgentState a stage attempt returned:
\* the next stage attempt, or the terminal status of the run
Decide(s, st, iteration, maxIter) ==
    IF st.status = "failed" THEN "failed"
    ELSE CASE s = "triage"   -> IF st.status = "success" THEN "research" ELSE "skipped"
           [] s = "research" -> IF st.status = "success" THEN "fix" ELSE "skipped"
           [] s = "review"   -> IF st.status = "success" THEN "success"
                                ELSE IF iteration < maxIter THEN "fix-revision"
                                ELSE "blocked"
           [] OTHER          -> IF st.status = "success" THEN "review" ELSE "skipped"

\* failure_reason of a run that ends with `status` at stage attempt s
FailureReason(status, s, st) ==
    CASE status = "success" -> {}
      [] status = "failed"  ->
            {IF st.error # "" THEN st.error ELSE st.data.err}
      [] status = "blocked" -> {st.data.verdict, st.data.concerns}
      [] s = "triage"       -> {ClassificationReason(st.data.cls)}
      [] OTHER              -> {"no changes"}

\* the PipelineState made terminal, once
Finalize(p, status, s, sts) ==
    [p EXCEPT !.status = status,
              !.agents_completed = Append(@, s),
              !.failure_reason = FailureReason(status, s, sts[AgentOf(s)]),
              !.aggregate_confidence = MeanOver(sts, Contributing(sts)),
              !.confidence_breakdown =
                  [a \in Contributing(sts) |-> sts[a].confidence]]

-----------------------------------------------------------------------------
(* process_issue and its handlers: src/run.py *)

\* calls made on the collaborators, and what handle_success learnt from
\* them: has_unpushed_commits, the diff against the base branch, whether
\* the push returned, and how its comment ended
NoEffects ==
    [push |-> 0, create_pr |-> 0, comments |-> 0, cleanups |-> 0, commits |-> 0,
     has_unpushed |-> "unasked", has_diff |-> "unasked", pushed |-> FALSE,
     comment |-> "none"]

\* lines 266-280: the handler for a terminal pipeline status
HandlerForPublishesBlocked(status) ==
    CASE status \in {"success", "blocked"} -> "handle_success"
      [] status = "skipped" -> "handle_skip"
      [] OTHER              -> "handle_failure"

HandlerFor(status) ==
    CASE status = "success" -> "handle_success"
      [] status = "skipped" -> "handle_skip"
      [] OTHER              -> "handle_failure"

\* line 508: fix.state.json exists and the reason contains "no changes"
TakesFixNoChangesPathNoFile(fixFile, reason) ==
    fixFile = "absent" /\ "no changes" \in reason

TakesFixNoChangesPath(fixFile, reason) ==
    fixFile # "absent" /\ "no changes" \in reason

-----------------------------------------------------------------------------
(* The state machine *)

\* the extractor, the process runner, the lock, the batch and the state file
\* writer are not in use
ExOff == [phase |-> "off", fn |-> ""]

RcOff == [phase |-> "off"]

LkOff == [phase |-> "off"]

BtOff == [phase |-> "off"]

RjOff == [phase |-> "off"]

GhOff == [phase |-> "off"]

SnOff == [phase |-> "off"]

SvOff == [phase |-> "off"]

\* thresholds and loop budgets a Config can carry
MinTriageChoices == {MinTriageDefault, MaxThreshold}

Init ==
    /\ cfg \in [min_triage_confidence : MinTriageChoices,
                max_fix_review_iterations : 1..MaxIterBound]
    /\ pc = "fetch"
    /\ stage = "triage"
    /\ states = [a \in AgentNames |-> NoAgentState]
    /\ disk = [a \in AgentNames |-> "absent"]
    /\ saves = 0
    /\ lastIn = NoInput
    /\ lastRun = NoRun
    /\ pipeline = NewPipelineState
    /\ handler = "none"
    /\ skipPath = "none"
    /\ effects = NoEffects
    /\ metrics = "none"
    /\ result = "none"
    /\ calls = 0
    /\ ex = ExOff
    /\ rc = RcOff
    /\ lk = LkOff
    /\ bt = BtOff
    /\ sv = SvOff
    /\ rj = RjOff
    /\ gh = GhOff
    /\ sn = SnOff

\* github.get_issue: a GitHubError makes process_issue return FAILED
FetchIssue ==
    /\ pc = "fetch"
    /\ \E ok \in BOOLEAN :
         IF ok THEN pc' = "prepare" /\ result' = result
         ELSE pc' = "done" /\ result' = "failed"
    /\ UNCHANGED <<calls, ex, rc, lk, bt, sv, rj, gh, sn, cfg, stage, states, disk, saves, lastIn, lastRun, pipeline,
                   handler, skipPath, effects, metrics>>

\* the branch preparation: a GitError makes process_issue return FAILED, a
\* GitHubError of close_pr is not caught there and leaves process_issue
PrepareBranch ==
    /\ pc = "prepare"
    /\ \E how \in {"ok", "git_error", "github_error"} :
         CASE how = "ok" -> pc' = "start" /\ result' = result
           [] how = "git_error" -> pc' = "done" /\ result' = "failed"
           [] OTHER -> pc' = "done" /\ result' = "raised"
    /\ UNCHANGED <<calls, ex, rc, lk, bt, sv, rj, gh, sn, cfg, stage, states, disk, saves, lastIn, lastRun, pipeline,
                   handler, skipPath, effects, metrics>>

\* the controller constructs the stage's agent and calls execute()
StartStage ==
    /\ pc = "start"
    /\ ExecuteBegin(AgentOf(stage))
    /\ calls' = 0
    /\ pc' = "inrun"
    /\ UNCHANGED <<ex, rc, lk, bt, sv, rj, gh, sn, cfg, stage, pipeline, handler, skipPath, effects, metrics, result>>

TriageExecute ==
    /\ pc = "inrun" /\ stage = "triage"
    /\ \E o \in TriageOutcomes :
         /\ ExecuteEnd("triage", o, TriageRun(o, cfg.min_triage_confidence))
         /\ calls' = TriageCalls(o)
    /\ pc' = "returned"
    /\ UNCHANGED <<ex, rc, lk, bt, sv, rj, gh, sn, cfg, stage, pipeline, handler, skipPath, effects, metrics, result>>

ResearchExecute ==
    /\ pc = "inrun" /\ stage = "research"
    /\ \E o \in ResearchOutcomes :
         /\ ExecuteEnd("research", o, ResearchRun(o, states["triage"]))
         /\ calls' = ResearchCalls(o, states["triage"])
    /\ pc' = "returned"
    /\ UNCHANGED <<ex, rc, lk, bt, sv, rj, gh, sn, cfg, stage, pipeline, handler, skipPath, effects, metrics, result>>

FixExecute ==
    /\ pc = "inrun" /\ stage \in {"fix", "fix-revision"}
    /\ \E o \in FixOutcomes :
         /\ ExecuteEnd("fix", o, FixRun(o))
         /\ calls' = FixCalls(o)
    /\ pc' = "returned"
    /\ UNCHANGED <<ex, rc, lk, bt, sv, rj, gh, sn, cfg, stage, pipeline, handler, skipPath, effects, metrics, result>>

ReviewExecute ==
    /\ pc = "inrun" /\ stage = "review"
    /\ \E o \in ReviewOutcomes :
         /\ ExecuteEnd("review", o, ReviewRun(o, states["fix"]))
         /\ calls' = ReviewCalls(o, states["fix"])
    /\ pc' = "returned"
    /\ UNCHANGED <<ex, rc, lk, bt, sv, rj, gh, sn, cfg, stage, pipeline, handler, skipPath, effects, metrics, result>>

\* the decision of the controller on the AgentState execute() returned
Decision ==
    Decide(stage, states[AgentOf(stage)], pipeline.iteration,
           cfg.max_fix_review_iterations)

\* the run goes on with the next stage attempt
PipelineAdvance ==
    /\ pc = "returned"
    /\ Decision \notin PipelineStatus
    /\ pipeline' = [pipeline EXCEPT
                      !.agents_completed = Append(@, stage),
                      !.iteration = IF Decision = "fix-revision" THEN @ + 1 ELSE @]
    /\ stage' = Decision
    /\ pc' = "start"
    /\ UNCHANGED <<calls, ex, rc, lk, bt, sv, rj, gh, sn, cfg, states, disk, saves, lastIn, lastRun, handler, skipPath,
                   effects, metrics, result>>

\* the run reaches its terminal status and Pipeline.run returns
PipelineFinalize ==
    /\ pc = "returned"
    /\ Decision \in PipelineStatus
    /\ pipeline' = Finalize(pipeline, Decision, stage, states)
    /\ pc' = "metrics"
    /\ UNCHANGED <<calls, ex, rc, lk, bt, sv, rj, gh, sn, cfg, stage, states, disk, saves, lastIn, lastRun, handler,
                   skipPath, effects, metrics, result>>

\* record_run_metrics, then the dispatch on the pipeline status; an error
\* writing the metrics is an unexpected exception: cleanup and re-raise
RecordMetrics ==
    /\ pc = "metrics"
    /\ \E ok \in BOOLEAN :
         IF ok
         THEN /\ metrics' = pipeline.status
              /\ handler' = HandlerFor(pipeline.status)
              /\ pc' = "handle"
              /\ UNCHANGED <<effects, result>>
         ELSE /\ effects' = [effects EXCEPT !.cleanups = @ + 1]
              /\ result' = "raised"
              /\ pc' = "done"
              /\ UNCHANGED <<metrics, handler>>
    /\ UNCHANGED <<calls, ex, rc, lk, bt, sv, rj, gh, sn, cfg, stage, states, disk, saves, lastIn, lastRun, pipeline,
                   skipPath>>

\* what the collaborators answer inside handle_success
SuccessEnvs ==
    [dirty : BOOLEAN, commit : {"ok", "git_error"}, unpushed : BOOLEAN,
     diff : BOOLEAN, push : {"ok", "git_error"},
     create_pr : {"ok", "github_error", "decode_error"},
     comment : {"ok", "github_error"}]

\* handle_success, lines 288-440, as (effects, result) for the answers e
SuccessOutcome(eff, e) ==
    LET committed == [eff EXCEPT !.commits = IF e.dirty THEN @ + 1 ELSE @]
        commented(x) == [x EXCEPT !.comments = @ + 1, !.comment = e.comment]
        nothing == [committed EXCEPT !.has_unpushed = "no"]
        nodiff == [committed EXCEPT !.has_unpushed = "yes", !.has_diff = "no"]
        ready == [committed EXCEPT !.has_unpushed = "yes", !.has_diff = "yes"]
        refused == [ready EXCEPT !.push = @ + 1]
        pushed == [ready EXCEPT !.push = @ + 1, !.pushed = TRUE]
        created == [pushed EXCEPT !.create_pr = @ + 1]
    IN  IF e.dirty /\ e.commit = "git_error"
        THEN [effects |-> committed, result |-> "failed"]
        ELSE IF ~e.unpushed
        THEN [effects |-> commented(nothing),
              result |-> IF e.comment = "ok" THEN "skipped" ELSE "failed"]
        ELSE IF ~e.diff
        THEN [effects |-> commented(nodiff),
              result |-> IF e.comment = "ok" THEN "skipped" ELSE "failed"]
        ELSE IF e.push = "git_error"
        THEN [effects |-> refused, result |-> "failed"]
        ELSE IF e.create_pr = "github_error"
        THEN [effects |-> created, result |-> "failed"]
        ELSE IF e.create_pr = "decode_error"
        THEN [effects |-> [created EXCEPT !.cleanups = @ + 1], result |-> "raised"]
        ELSE [effects |-> commented(created),
              result |-> IF e.comment = "ok" THEN "success" ELSE "failed"]

HandleSuccess ==
    /\ pc = "handle" /\ handler = "handle_success"
    /\ \E e \in SuccessEnvs :
         /\ effects' = SuccessOutcome(effects, e).effects
         /\ result' = SuccessOutcome(effects, e).result
    /\ pc' = "done"
    /\ UNCHANGED <<calls, ex, rc, lk, bt, sv, rj, gh, sn, cfg, stage, states, disk, saves, lastIn, lastRun, pipeline,
                   handler, skipPath, metrics>>

\* cleanup_git_state, then handle_skip: one comment on either path, a
\* GitHubError of which is only logged
HandleSkip ==
    /\ pc = "handle" /\ handler = "handle_skip"
    /\ skipPath' = IF TakesFixNoChangesPath(disk["fix"], pipeline.failure_reason)
                   THEN "handle_fix_no_changes" ELSE "classification"
    /\ effects' = [effects EXCEPT !.cleanups = @ + 1, !.comments = @ + 1]
    /\ result' = "skipped"
    /\ pc' = "done"
    /\ UNCHANGED <<calls, ex, rc, lk, bt, sv, rj, gh, sn, cfg, stage, states, disk, saves, lastIn, lastRun, pipeline,
                   handler, metrics>>

\* handle_failure: cleanup_git_state, one comment, FAILED
HandleFailure ==
    /\ pc = "handle" /\ handler = "handle_failure"
    /\ effects' = [effects EXCEPT !.cleanups = @ + 1, !.comments = @ + 1]
    /\ result' = "failed"
    /\ pc' = "done"
    /\ UNCHANGED <<calls, ex, rc, lk, bt, sv, rj, gh, sn, cfg, stage, states, disk, saves, lastIn, lastRun, pipeline,
                   handler, skipPath, metrics>>

Next ==
    \/ FetchIssue
    \/ PrepareBranch
    \/ StartStage
    \/ TriageExecute
    \/ ResearchExecute
    \/ FixExecute
    \/ ReviewExecute
    \/ PipelineAdvance
    \/ PipelineFinalize
    \/ RecordMetrics
    \/ HandleSuccess
    \/ HandleSkip
    \/ HandleFailure

Spec == Init /\ [][Next]_vars

FairSpec == Spec /\ WF_vars(Next)

-----------------------------------------------------------------------------
(* A ResearchAgent or a ReviewAgent executed on its own, with whatever     *)
(* previous_states its caller put in the AgentContext                      *)

\* the stage whose AgentState a stage's run() requires
PredecessorOf(s) == IF s = "research" THEN "triage" ELSE "fix"

\* previous_states.get(name): no entry, or an AgentState of any status
PreviousStatuses == AgentStatus \cup {"absent"}

DirectConfig ==
    [min_triage_confidence |-> MinTriageDefault,
     max_fix_review_iterations |-> MaxFixReviewIterationsDefault]

DirectInit ==
    /\ cfg = DirectConfig
    /\ pc = "direct_start"
    /\ stage \in {"research", "review"}
    /\ \E st \in PreviousStatuses :
         /\ states = [a \in AgentNames |->
                        IF a = PredecessorOf(stage)
                        THEN [NewAgentState EXCEPT !.status = st]
                        ELSE NoAgentState]
         /\ disk = [a \in AgentNames |->
                      IF a = PredecessorOf(stage) THEN st ELSE "absent"]
    /\ saves = 0
    /\ lastIn = NoInput
    /\ lastRun = NoRun
    /\ pipeline = NewPipelineState
    /\ handler = "none"
    /\ skipPath = "none"
    /\ effects = NoEffects
    /\ metrics = "none"
    /\ result = "none"
    /\ calls = 0
    /\ ex = ExOff
    /\ rc = RcOff
    /\ lk = LkOff
    /\ bt = BtOff
    /\ sv = SvOff
    /\ rj = RjOff
    /\ gh = GhOff
    /\ sn = SnOff

\* Agent.__init__ and the head of execute()
DirectStart ==
    /\ pc = "direct_start"
    /\ ExecuteBegin(stage)
    /\ calls' = 0
    /\ pc' = "direct_inrun"
    /\ UNCHANGED <<ex, rc, lk, bt, sv, rj, gh, sn, cfg, stage, pipeline, handler, skipPath, effects,
                   metrics, result>>

\* run() and the tail of execute()
DirectExecute ==
    /\ pc = "direct_inrun"
    /\ IF stage = "research"
       THEN \E o \in ResearchOutcomes :
              /\ ExecuteEnd("research", o, ResearchRun(o, states["triage"]))
              /\ calls' = ResearchCalls(o, states["triage"])
       ELSE \E o \in ReviewOutcomes :
              /\ ExecuteEnd("review", o, ReviewRun(o, states["fix"]))
              /\ calls' = ReviewCalls(o, states["fix"])
    /\ pc' = "direct_done"
    /\ UNCHANGED <<ex, rc, lk, bt, sv, rj, gh, sn, cfg, stage, pipeline, handler, skipPath, effects,
                   metrics, result>>

DirectNext ==
    \/ Next
    \/ DirectStart
    \/ DirectExecute

\* the runs of the pipeline together with the stand-alone executions
DirectSpec == (Init \/ DirectInit) /\ [][DirectNext]_vars

-----------------------------------------------------------------------------
(* Text and JSON values: what Python's str and json give claude_runner.py  *)
(*                                                                         *)
(* A text is a sequence of one-character strings, indexed from 0 as in the *)
(* source (At, Slice), so that the scanners' index arithmetic is kept.     *)
(* A JSON value is a pair <<tag, content>>: <<"obj", pairs>> with pairs a  *)
(* sequence of <<key text, value>>, <<"arr", values>>, <<"str", text>>,    *)
(* <<"num", digits>>, <<"lit", text>> for null, true and false.            *)
(* A value computed once and used several times is handed to a further     *)
(* operator as its argument.                                               *)

QUOTE == "\""

BACKSLASH == "\\"

NL == "\n"

SP == " "

\* the backtick, which a TLA+ string cannot hold, is written ^
BACKTICK == "^"

\* the whitespace of the alphabet: str.strip(), the closing-fence test and
\* json's WHITESPACE all accept a space and a newline
Whitespace == {SP, NL}

Digits == {"0", "1", "2", "3", "4", "5", "6", "7", "8", "9"}

\* text[i], for 0 <= i < len(text)
At(text, i) == text[i + 1]

\* text[a:b]
Slice(text, a, b) == SubSeq(text, a + 1, b)

\* text[a:]
SliceFrom(text, a) == SubSeq(text, a + 1, Len(text))

\* text[i:i+1] == ch
IsAt(text, i, ch) == i < Len(text) /\ At(text, i) = ch

\* text[i:].startswith(pat)
StartsWithAt(text, i, pat) ==
    /\ i + Len(pat) <= Len(text)
    /\ Slice(text, i, i + Len(pat)) = pat

\* the least index of S, or `none` when S is empty
LowestOr(S, none) == IF S = {} THEN none ELSE CHOOSE j \in S : \A k \in S : j <= k

HighestOr(S, none) == IF S = {} THEN none ELSE CHOOSE j \in S : \A k \in S : j >= k

\* text.find(pat, start): the lowest index >= start where pat occurs, or -1
Find(text, pat, start) ==
    LowestOr({j \in start..(Len(text) - Len(pat)) : StartsWithAt(text, j, pat)}, -1)

\* the lowest index >= start of a character of `chars`, or -1
FindAny(text, chars, start) ==
    LowestOr({j \in start..(Len(text) - 1) : At(text, j) \in chars}, -1)

\* text.strip()
Strip(text) ==
    SubSeq(text,
           LowestOr({j \in 1..Len(text) : text[j] \notin Whitespace}, 1),
           HighestOr({j \in 1..Len(text) : text[j] \notin Whitespace}, 0))

\* text.split("\n")
RECURSIVE SplitLines(_)
RECURSIVE SplitAt(_, _)
SplitAt(text, newline) ==
    IF newline = -1 THEN <<text>>
    ELSE <<Slice(text, 0, newline)>> \o SplitLines(SliceFrom(text, newline + 1))

SplitLines(text) == SplitAt(text, Find(text, <<NL>>, 0))

\* text.replace(pat, by)
RECURSIVE Replace(_, _, _)
RECURSIVE ReplaceAt(_, _, _, _)
ReplaceAt(text, pat, by, at) ==
    IF at = -1 THEN text
    ELSE Slice(text, 0, at) \o by
         \o Replace(SliceFrom(text, at + Len(pat)), pat, by)

Replace(text, pat, by) == ReplaceAt(text, pat, by, Find(text, pat, 0))

\* reversed(seq)
Reversed(seq) == [j \in 1..Len(seq) |-> seq[Len(seq) + 1 - j]]

\* the end of json's WHITESPACE.match(text, i)
SkipWhitespace(text, i) ==
    LowestOr({j \in i..(Len(text) - 1) : At(text, j) \notin Whitespace},
             IF i > Len(text) THEN i ELSE Len(text))

JsonNone == <<"none", <<>>>>

\* a decoding step that raised JSONDecodeError
DecodeError == [ok |-> FALSE, val |-> JsonNone, end |-> 0]

Decoded(val, end) == [ok |-> TRUE, val |-> val, end |-> end]

\* the characters json's BACKSLASH table maps, of those the alphabet has
Unescape(ch) ==
    CASE ch = "n"       -> <<NL>>
      [] ch = QUOTE     -> <<QUOTE>>
      [] ch = BACKSLASH -> <<BACKSLASH>>
      [] OTHER          -> <<>>

\* json.decoder.py_scanstring(text, i) with strict=True, i after the opening
\* quote, chunk by chunk up to the next quote, backslash or control
\* character at `stop`: a control character or an unknown escape is a
\* JSONDecodeError
RECURSIVE ScanString(_, _, _)
RECURSIVE ScanChunk(_, _, _, _)
ScanChunk(text, i, acc, stop) ==
    IF stop = -1 THEN DecodeError
    ELSE IF At(text, stop) = QUOTE
    THEN Decoded(<<"str", acc \o Slice(text, i, stop)>>, stop + 1)
    ELSE IF At(text, stop) = NL THEN DecodeError
    ELSE IF stop + 1 >= Len(text) \/ Unescape(At(text, stop + 1)) = <<>>
    THEN DecodeError
    ELSE ScanString(text, stop + 2,
                    acc \o Slice(text, i, stop) \o Unescape(At(text, stop + 1)))

ScanString(text, i, acc) ==
    ScanChunk(text, i, acc, FindAny(text, {QUOTE, BACKSLASH, NL}, i))

\* the end of the integer NUMBER_RE matches at i
ScanDigits(text, i) ==
    LowestOr({j \in i..(Len(text) - 1) : At(text, j) \notin Digits}, Len(text))

NumberTo(text, i, end) == Decoded(<<"num", Slice(text, i, end)>>, end)

NullText == <<"n", "u", "l", "l">>

TrueText == <<"t", "r", "u", "e">>

FalseText == <<"f", "a", "l", "s", "e">>

\* dict(pairs): of two pairs with the same key the later one stays
RECURSIVE LastOfEachKey(_, _)
LastOfEachKey(pairs, j) ==
    IF j > Len(pairs) THEN <<>>
    ELSE (IF \A k \in (j + 1)..Len(pairs) : pairs[k][1] # pairs[j][1]
          THEN <<pairs[j]>> ELSE <<>>)
         \o LastOfEachKey(pairs, j + 1)

DictOf(pairs) == <<"obj", LastOfEachKey(pairs, 1)>>

RECURSIVE ScanOnce(_, _)
RECURSIVE ScanValue(_, _, _, _)
RECURSIVE ScanArray(_, _, _)
RECURSIVE ArrayItem(_, _, _)
RECURSIVE ArrayNext(_, _, _)
RECURSIVE ScanObject(_, _, _)
RECURSIVE ObjectKey(_, _, _)
RECURSIVE ObjectColon(_, _, _, _)
RECURSIVE ObjectValue(_, _, _, _)
RECURSIVE ObjectNext(_, _, _)
RECURSIVE ObjectNextKey(_, _, _)

\* json.scanner.py_make_scanner's _scan_once(text, i)
ScanOnce(text, i) ==
    IF i >= Len(text) THEN DecodeError
    ELSE ScanValue(text, i, At(text, i), SkipWhitespace(text, i + 1))

\* nextchar = text[i]; j is the index after the whitespace that follows it
ScanValue(text, i, nextchar, j) ==
    CASE nextchar = QUOTE -> ScanString(text, i + 1, <<>>)
      [] nextchar = "{" ->
            IF IsAt(text, j, "}") THEN Decoded(<<"obj", <<>>>>, j + 1)
            ELSE IF IsAt(text, j, QUOTE) THEN ScanObject(text, j + 1, <<>>)
            ELSE DecodeError
      [] nextchar = "[" ->
            IF IsAt(text, j, "]") THEN Decoded(<<"arr", <<>>>>, j + 1)
            ELSE ScanArray(text, j, <<>>)
      [] nextchar = "n" /\ StartsWithAt(text, i, NullText) ->
            Decoded(<<"lit", NullText>>, i + 4)
      [] nextchar = "t" /\ StartsWithAt(text, i, TrueText) ->
            Decoded(<<"lit", TrueText>>, i + 4)
      [] nextchar = "f" /\ StartsWithAt(text, i, FalseText) ->
            Decoded(<<"lit", FalseText>>, i + 5)
      [] nextchar = "0" -> Decoded(<<"num", <<"0">>>>, i + 1)
      [] nextchar \in Digits \ {"0"} -> NumberTo(text, i, ScanDigits(text, i))
      [] OTHER -> DecodeError

\* json.decoder.JSONArray from a value on: the value, then "]" or ","
ScanArray(text, i, values) == ArrayItem(text, values, ScanOnce(text, i))

ArrayItem(text, values, value) ==
    IF ~value.ok THEN DecodeError
    ELSE ArrayNext(text, Append(values, value.val), SkipWhitespace(text, value.end))

ArrayNext(text, values, end) ==
    IF IsAt(text, end, "]") THEN Decoded(<<"arr", values>>, end + 1)
    ELSE IF IsAt(text, end, ",")
    THEN ScanArray(text, SkipWhitespace(text, end + 1), values)
    ELSE DecodeError

\* json.decoder.JSONObject from the character after a key's opening quote:
\* the key, ":", the value, then "}" or "," and the next key's quote
ScanObject(text, i, pairs) == ObjectKey(text, pairs, ScanString(text, i, <<>>))

ObjectKey(text, pairs, key) ==
    IF ~key.ok THEN DecodeError
    ELSE ObjectColon(text, pairs, key.val[2], SkipWhitespace(text, key.end))

ObjectColon(text, pairs, key, end) ==
    IF ~IsAt(text, end, ":") THEN DecodeError
    ELSE ObjectValue(text, pairs, key,
                     ScanOnce(text, SkipWhitespace(text, end + 1)))

ObjectValue(text, pairs, key, value) ==
    IF ~value.ok THEN DecodeError
    ELSE ObjectNext(text, Append(pairs, <<key, value.val>>),
                    SkipWhitespace(text, value.end))

ObjectNext(text, pairs, end) ==
    IF IsAt(text, end, "}") THEN Decoded(DictOf(pairs), end + 1)
    ELSE IF IsAt(text, end, ",")
    THEN ObjectNextKey(text, pairs, SkipWhitespace(text, end + 1))
    ELSE DecodeError

ObjectNextKey(text, pairs, end) ==
    IF IsAt(text, end, QUOTE) THEN ScanObject(text, end + 1, pairs)
    ELSE DecodeError

\* json.JSONDecoder().raw_decode(text, i): the value and the index after it
RawDecode(text, i) == ScanOnce(text, i)

\* json.loads(text): leading and trailing whitespace allowed, nothing else
WholeText(text, obj) ==
    IF obj.ok /\ SkipWhitespace(text, obj.end) = Len(text) THEN obj ELSE DecodeError

JsonLoads(text) == WholeText(text, RawDecode(text, SkipWhitespace(text, 0)))

IsDict(v) == v[1] = "obj"

IsList(v) == v[1] = "arr"

IsStr(v) == v[1] = "str"

\* key in d, for a dict d
HasKey(d, key) == \E j \in 1..Len(d[2]) : d[2][j][1] = key

\* d.get(key, default), for a dict d
DictGet(d, key, default) ==
    IF HasKey(d, key)
    THEN d[2][CHOOSE j \in 1..Len(d[2]) : d[2][j][1] = key][2]
    ELSE default
-----------------------------------------------------------------------------
(* The output extractor: src/claude_runner.py, lines 111-259 *)

Fence == <<BACKTICK, BACKTICK, BACKTICK>>

JsonFence == Fence \o <<"j", "s", "o", "n">>

RECURSIVE ContainsAny(_, _)
RECURSIVE ContainsRequiredFieldDictsOnly(_, _)
RECURSIVE ContainsRequiredField(_, _)

\* any(_contains_required_field(v, required_field) for v in values)
ContainsAny(values, required_field) ==
    \E j \in 1..Len(values) : ContainsRequiredField(values[j], required_field)

ContainsRequiredFieldDictsOnly(value, required_field) ==
    IF IsDict(value)
    THEN \/ HasKey(value, required_field)
         \/ \E j \in 1..Len(value[2]) :
               ContainsRequiredFieldDictsOnly(value[2][j][2], required_field)
    ELSE FALSE

\* _contains_required_field
ContainsRequiredField(value, required_field) ==
    IF IsDict(value)
    THEN \/ HasKey(value, required_field)
         \/ ContainsAny([j \in 1..Len(value[2]) |-> value[2][j][2]], required_field)
    ELSE IF IsList(value) THEN ContainsAny(value[2], required_field)
    ELSE FALSE

\* the inner loop of _extract_json_blocks, lines 144-165: the block that
\* starts at content_start, and the index the outer loop goes on from
\* (stop: the outer loop is left)
RECURSIVE CloseBlock(_, _, _)
RECURSIVE CloseBlockAt(_, _, _)
CloseBlockAt(text, content_start, close_marker) ==
    IF close_marker = -1
    THEN [stop |-> FALSE, block |-> <<Strip(SliceFrom(text, content_start))>>,
          i |-> Len(text)]
    ELSE IF close_marker + 3 >= Len(text) \/ At(text, close_marker + 3) \in Whitespace
    THEN [stop |-> FALSE,
          block |-> <<Strip(Slice(text, content_start, close_marker))>>,
          i |-> close_marker + 3]
    ELSE CloseBlock(text, content_start, close_marker + 3)

CloseBlock(text, content_start, search_pos) ==
    IF search_pos >= Len(text)
    THEN [stop |-> TRUE, block |-> <<>>, i |-> Len(text)]
    ELSE CloseBlockAt(text, content_start, Find(text, Fence, search_pos))

\* the outer loop of _extract_json_blocks, lines 130-165
RECURSIVE ExtractJsonBlocksFrom(_, _, _)
RECURSIVE OpenBlockAt(_, _, _)
RECURSIVE OpenBlockLine(_, _, _)
RECURSIVE AppendBlock(_, _, _)
ExtractJsonBlocksFrom(text, i, blocks) ==
    IF i >= Len(text) THEN blocks
    ELSE OpenBlockAt(text, blocks, Find(text, JsonFence, i))

OpenBlockAt(text, blocks, start_marker) ==
    IF start_marker = -1 THEN blocks
    ELSE OpenBlockLine(text, blocks, Find(text, <<NL>>, start_marker))

OpenBlockLine(text, blocks, newline) ==
    IF newline = -1 THEN blocks
    ELSE AppendBlock(text, blocks, CloseBlock(text, newline + 1, newline + 1))

AppendBlock(text, blocks, closed) ==
    IF closed.stop THEN blocks
    ELSE ExtractJsonBlocksFrom(text, closed.i, blocks \o closed.block)

\* _extract_json_blocks
ExtractJsonBlocks(text) == ExtractJsonBlocksFrom(text, 0, <<>>)

\* _try_parse_json: the object, or None
ParsedWith(obj, required_field) ==
    IF obj.ok /\ IsDict(obj.val) /\ ContainsRequiredField(obj.val, required_field)
    THEN obj.val
    ELSE JsonNone

TryParseJson(text, required_field) == ParsedWith(JsonLoads(text), required_field)

\* the loop of _find_json_objects, lines 191-206, with the index at i
RECURSIVE FindJsonObjectsFrom(_, _, _)
RECURSIVE FindJsonObjectsAt(_, _, _)
RECURSIVE FindJsonObjectsDecoded(_, _, _, _)
FindJsonObjectsFrom(text, required_field, i) ==
    FindJsonObjectsAt(text, required_field, FindAny(text, {"{", "["}, i))

FindJsonObjectsAt(text, required_field, i) ==
    IF i = -1 THEN JsonNone
    ELSE FindJsonObjectsDecoded(text, required_field, i, RawDecode(text, i))

FindJsonObjectsDecoded(text, required_field, i, decoded) ==
    IF ~decoded.ok THEN FindJsonObjectsFrom(text, required_field, i + 1)
    ELSE IF IsDict(decoded.val) /\ ContainsRequiredField(decoded.val, required_field)
    THEN decoded.val
    ELSE FindJsonObjectsFrom(text, required_field, i + decoded.end)

\* _find_json_objects
FindJsonObjects(text, required_field) == FindJsonObjectsFrom(text, required_field, 0)

\* lines 238-246 for one text: the fenced blocks newest first, then the
\* bracket scan
RECURSIVE FirstParsed(_, _)
RECURSIVE FirstParsedOr(_, _, _)
FirstParsed(blocks, required_field) ==
    IF blocks = <<>> THEN JsonNone
    ELSE FirstParsedOr(Tail(blocks), required_field,
                       TryParseJson(Head(blocks), required_field))

FirstParsedOr(blocks, required_field, parsed) ==
    IF parsed # JsonNone THEN parsed ELSE FirstParsed(blocks, required_field)

FoundOr(text, required_field, parsed) ==
    IF parsed # JsonNone THEN parsed ELSE FindJsonObjects(text, required_field)

SearchText(text, required_field) ==
    FoundOr(text, required_field,
            FirstParsed(Reversed(ExtractJsonBlocks(text)), required_field))

TypeKey == <<"t", "y", "p", "e">>

TextKey == <<"t", "e", "x", "t">>

MessageKey == <<"m", "e", "s", "s", "a", "g", "e">>

ContentKey == <<"c", "o", "n", "t", "e", "n", "t">>

AssistantText == <<"a", "s", "s", "i", "s", "t", "a", "n", "t">>

ResultText == <<"r", "e", "s", "u", "l", "t">>

\* what the loop body of lines 225-232 does with one line: the texts it
\* appends, or the exception that leaves it ("" when none does)
Collected(texts) == [exc |-> "", texts |-> texts]

Raises(exc) == [exc |-> exc, texts |-> <<>>]

\* `for content in ...` over an event's content, lines 228-230
RECURSIVE CollectContent(_, _)
CollectContent(items, texts) ==
    IF items = <<>> THEN Collected(texts)
    ELSE IF ~IsDict(Head(items)) THEN Raises("AttributeError")
    ELSE IF DictGet(Head(items), TypeKey, JsonNone) = <<"str", TextKey>>
    THEN CollectContent(Tail(items),
                        Append(texts, DictGet(Head(items), TextKey, <<"str", <<>>>>)))
    ELSE CollectContent(Tail(items), texts)

\* what iterating a JSON value yields: a list's items, a dict's keys, a
\* string's characters; any other value is not iterable
Iterate(v) ==
    CASE IsList(v) -> v[2]
      [] IsDict(v) -> [j \in 1..Len(v[2]) |-> <<"str", v[2][j][1]>>]
      [] OTHER     -> [j \in 1..Len(v[2]) |-> <<"str", <<v[2][j]>>>>]

\* line 228, msg.get("message", {}).get("content", [])
CollectFrom(content) ==
    IF ~(IsList(content) \/ IsDict(content) \/ IsStr(content))
    THEN Raises("TypeError")
    ELSE CollectContent(Iterate(content), <<>>)

CollectMessage(message) ==
    IF ~IsDict(message) THEN Raises("AttributeError")
    ELSE CollectFrom(DictGet(message, ContentKey, <<"arr", <<>>>>))

\* lines 226-232, msg being what json.loads gave for the line
CollectParsed(msg) ==
    IF ~msg.ok THEN Collected(<<>>)
    ELSE IF ~IsDict(msg.val) THEN Raises("AttributeError")
    ELSE IF DictGet(msg.val, TypeKey, JsonNone) # <<"str", AssistantText>>
    THEN Collected(<<>>)
    ELSE CollectMessage(DictGet(msg.val, MessageKey, <<"obj", <<>>>>))

CollectLine(line) ==
    IF Strip(line) = <<>> THEN Collected(<<>>)
    ELSE CollectParsed(JsonLoads(line))

\* the loop of lines 222-232 over the lines
RECURSIVE CollectTexts(_, _)
RECURSIVE CollectNext(_, _, _)
CollectTexts(lines, texts) ==
    IF lines = <<>> THEN Collected(texts)
    ELSE CollectNext(Tail(lines), texts, CollectLine(Head(lines)))

CollectNext(lines, texts, got) ==
    IF got.exc # "" THEN got
    ELSE CollectTexts(lines, texts \o got.texts)

\* what extract_json_from_output does: it returns a value, or an exception
\* leaves it
ExtractReturns(val) == [kind |-> "ret", val |-> val, exc |-> ""]

ExtractRaises(exc) == [kind |-> "raise", val |-> JsonNone, exc |-> exc]

\* the loop of lines 235-246 over the collected texts, newest first; a
\* collected text that is no string has no find() (an empty list or dict
\* gets through, its len() being 0), and one without len() is a TypeError
RECURSIVE SearchTexts(_, _)
RECURSIVE SearchNext(_, _, _)
SearchTexts(texts, required_field) ==
    IF texts = <<>> THEN ExtractReturns(JsonNone)
    ELSE IF IsStr(Head(texts))
    THEN SearchNext(Tail(texts), required_field,
                    SearchText(Head(texts)[2], required_field))
    ELSE IF (IsList(Head(texts)) \/ IsDict(Head(texts))) /\ Head(texts)[2] = <<>>
    THEN SearchTexts(Tail(texts), required_field)
    ELSE IF IsList(Head(texts)) \/ IsDict(Head(texts))
    THEN ExtractRaises("AttributeError")
    ELSE ExtractRaises("TypeError")

SearchNext(texts, required_field, parsed) ==
    IF parsed # JsonNone THEN ExtractReturns(parsed)
    ELSE SearchTexts(texts, required_field)

\* line 250: the escape sequences undone, one replace after the other
RawText(output) ==
    Replace(Replace(Replace(output, <<BACKSLASH, "n">>, <<NL>>),
                    <<BACKSLASH, QUOTE>>, <<QUOTE>>),
            <<BACKSLASH, BACKSLASH>>, <<BACKSLASH>>)

\* lines 248-259: the fallback on the raw output, unless a text gave the
\* result or an exception left the loop
FallbackOr(output, required_field, found) ==
    IF found.kind = "raise" \/ found.val # JsonNone THEN found
    ELSE ExtractReturns(SearchText(RawText(output), required_field))

SearchCollected(output, required_field, collected) ==
    IF collected.exc # "" THEN ExtractRaises(collected.exc)
    ELSE FallbackOr(output, required_field,
                    SearchTexts(Reversed(collected.texts), required_field))

\* extract_json_from_output
ExtractJsonFromOutput(output, required_field) ==
    SearchCollected(output, required_field, CollectTexts(SplitLines(output), <<>>))
-----------------------------------------------------------------------------
(* The extractor applied to bounded inputs: specification ExSpec *)

\* deepest nesting of the JSON values _contains_required_field is given
MaxDepth == 2

\* the required field of the calls, and a key that is not it
FieldC == <<"c">>

KeyG == <<"g">>

KeyN == <<"n">>

\* what describes an input of the extractor: an output of the process
\* (format, segs, junk), a fenced block (pre, follow, lead, trail) or a
\* text with bare JSON values (pre, first, target)
NoCase ==
    [format |-> "", segs |-> <<>>, junk |-> "", pre |-> <<>>, follow |-> "",
     lead |-> <<>>, trail |-> <<>>, first |-> "", target |-> ""]

\* json.dumps of a string's characters, as the producer of an event line
\* writes them
EscapeOf(ch) ==
    CASE ch = QUOTE     -> <<BACKSLASH, QUOTE>>
      [] ch = BACKSLASH -> <<BACKSLASH, BACKSLASH>>
      [] OTHER          -> <<BACKSLASH, "n">>

RECURSIVE Escape(_)
RECURSIVE EscapeAt(_, _)
EscapeAt(text, stop) ==
    IF stop = -1 THEN text
    ELSE Slice(text, 0, stop) \o EscapeOf(At(text, stop))
         \o Escape(SliceFrom(text, stop + 1))

Escape(text) == EscapeAt(text, FindAny(text, {QUOTE, BACKSLASH, NL}, 0))

StrLit(text) == <<QUOTE>> \o Escape(text) \o <<QUOTE>>

ObjOne(k, v) == <<"{">> \o StrLit(k) \o <<":">> \o v \o <<"}">>

ObjTwo(k1, v1, k2, v2) ==
    <<"{">> \o StrLit(k1) \o <<":">> \o v1 \o <<",">>
            \o StrLit(k2) \o <<":">> \o v2 \o <<"}">>

RECURSIVE Joined(_, _)
Joined(texts, sep) ==
    IF texts = <<>> THEN <<>>
    ELSE IF Len(texts) = 1 THEN Head(texts)
    ELSE Head(texts) \o sep \o Joined(Tail(texts), sep)

\* a fenced json block around `content`
Fenced(content) == JsonFence \o <<NL>> \o content \o <<NL>> \o Fence

\* one assistant event of the stream carrying the text items `texts`
EventLine(texts) ==
    ObjTwo(TypeKey, StrLit(AssistantText),
           MessageKey,
           ObjOne(ContentKey,
                  <<"[">>
                  \o Joined([j \in 1..Len(texts) |->
                               ObjTwo(TypeKey, StrLit(TextKey),
                                      TextKey, StrLit(texts[j]))], <<",">>)
                  \o <<"]">>))

Num(d) == <<"num", <<d>>>>

\* the object {"c": d}
ObjC(d) == <<"obj", <<<<FieldC, Num(d)>>>>>>

\* the object {"c": 2, "n": "``` x"}
ObjFenceInString ==
    <<"obj", <<<<FieldC, Num("2")>>, <<KeyN, <<"str", Fence \o <<SP, "x">>>>>>>>>>

\* the texts an assistant may write, by kind: the text, and the object a
\* newest-match-first search of that text returns (JsonNone: no match)
SegmentKinds ==
    {"both", "second_only", "first_only", "single", "raw", "prose",
     "fenced_other", "both_fence_in_string", "raw_after_value"}

SegmentText(kind) ==
    CASE kind = "both" ->
            Fenced(ObjOne(FieldC, <<"1">>)) \o <<NL, NL>>
            \o Fenced(ObjOne(FieldC, <<"2">>))
      [] kind = "second_only" ->
            Fenced(ObjOne(KeyG, <<"1">>)) \o <<NL>>
            \o Fenced(ObjOne(FieldC, <<"2">>))
      [] kind = "first_only" ->
            Fenced(ObjOne(FieldC, <<"1">>)) \o <<NL>>
            \o Fenced(ObjOne(KeyG, <<"2">>))
      [] kind = "single" -> Fenced(ObjOne(FieldC, <<"3">>))
      [] kind = "raw" -> <<"x", SP>> \o ObjOne(FieldC, <<"4">>)
      [] kind = "fenced_other" -> Fenced(ObjOne(KeyG, <<"1">>))
      [] kind = "both_fence_in_string" ->
            Fenced(ObjOne(FieldC, <<"1">>)) \o <<NL>>
            \o Fenced(ObjTwo(FieldC, <<"2">>, KeyN, StrLit(Fence \o <<SP, "x">>)))
      [] kind = "raw_after_value" ->
            <<"x", SP, "[", "1", "]", SP>> \o ObjOne(FieldC, <<"5">>)
      [] OTHER -> <<"x">>

SegmentNewest(kind) ==
    CASE kind \in {"both", "second_only"} -> ObjC("2")
      [] kind = "first_only"           -> ObjC("1")
      [] kind = "single"               -> ObjC("3")
      [] kind = "raw"                  -> ObjC("4")
      [] kind = "both_fence_in_string" -> ObjFenceInString
      [] kind = "raw_after_value"      -> ObjC("5")
      [] OTHER                         -> JsonNone

\* a line of the output besides the assistant's texts
JunkKinds ==
    {"none", "blank", "garbage", "result_event", "field_event", "number",
     "null", "string", "array", "message_null", "content_null",
     "content_item_string", "text_number"}

JunkLine(kind) ==
    CASE kind = "blank"   -> <<SP>>
      [] kind = "garbage" -> <<"x", "{">>
      [] kind = "result_event" ->
            ObjTwo(TypeKey, StrLit(ResultText), KeyN, <<"1">>)
      [] kind = "field_event" ->
            ObjTwo(TypeKey, StrLit(ResultText), FieldC, <<"9">>)
      [] kind = "number"  -> <<"1", "2", "3">>
      [] kind = "null"    -> NullText
      [] kind = "string"  -> StrLit(<<"x">>)
      [] kind = "array"   -> <<"[", "1", "]">>
      [] kind = "message_null" ->
            ObjTwo(TypeKey, StrLit(AssistantText), MessageKey, NullText)
      [] kind = "content_null" ->
            ObjTwo(TypeKey, StrLit(AssistantText),
                   MessageKey, ObjOne(ContentKey, NullText))
      [] kind = "content_item_string" ->
            ObjTwo(TypeKey, StrLit(AssistantText),
                   MessageKey, ObjOne(ContentKey, <<"[">> \o StrLit(<<"x">>) \o <<"]">>))
      [] kind = "text_number" ->
            ObjTwo(TypeKey, StrLit(AssistantText),
                   MessageKey,
                   ObjOne(ContentKey,
                          <<"[">> \o ObjTwo(TypeKey, StrLit(TextKey), TextKey, <<"1">>)
                          \o <<"]">>))
      [] OTHER -> <<>>

\* the lines that are valid JSON but no event object, or an event whose
\* message or content has another shape than the scan expects
MalformedJunk ==
    {"number", "null", "string", "array", "message_null", "content_null",
     "content_item_string", "text_number"}

\* an output of the process: stream-json (one assistant event per segment)
\* or plain text, after an optional further line
OutputCases ==
    {[NoCase EXCEPT !.format = "plain", !.segs = <<k>>, !.junk = j] :
        k \in SegmentKinds, j \in JunkKinds}
    \cup {[NoCase EXCEPT !.format = "stream", !.segs = <<k>>, !.junk = j] :
            k \in SegmentKinds, j \in JunkKinds}
    \cup {[NoCase EXCEPT !.format = "stream", !.segs = <<k1, k2>>, !.junk = j] :
            k1 \in SegmentKinds, k2 \in SegmentKinds, j \in JunkKinds}

OutputLines(case) ==
    [j \in 1..Len(case.segs) |->
        IF case.format = "stream"
        THEN EventLine(<<SegmentText(case.segs[j])>>)
        ELSE SegmentText(case.segs[j])]

OutputText(case) ==
    Joined((IF case.junk = "none" THEN <<>> ELSE <<JunkLine(case.junk)>>)
           \o OutputLines(case), <<NL>>)

\* the object of the newest segment that has a match
RECURSIVE NewestMatch(_)
NewestMatch(segs) ==
    IF segs = <<>> THEN JsonNone
    ELSE IF SegmentNewest(segs[Len(segs)]) # JsonNone
    THEN SegmentNewest(segs[Len(segs)])
    ELSE NewestMatch(SubSeq(segs, 1, Len(segs) - 1))

\* a fenced json block whose object has a string value holding a literal
\* triple backtick: what precedes it in the string, what follows it there
\* (a language label, the closing quote, a space, a newline), and what
\* surrounds the block
FollowKinds == {"label", "quote", "space", "newline"}

FollowText(kind) ==
    CASE kind = "label"   -> <<"p", "y">>
      [] kind = "space"   -> <<SP, "x">>
      [] kind = "newline" -> <<NL, "x">>
      [] OTHER            -> <<>>

BlockCases ==
    {[NoCase EXCEPT !.pre = p, !.follow = f, !.lead = l, !.trail = t] :
        p \in {<<>>, <<"a">>, <<"a", SP>>}, f \in FollowKinds,
        l \in {<<>>, <<"x", NL>>}, t \in {<<>>, <<NL, "x">>}}

\* the string value, the content of the block and the text around it
BlockString(case) == case.pre \o Fence \o FollowText(case.follow)

BlockContent(case) == ObjOne(FieldC, StrLit(BlockString(case)))

BlockText(case) == case.lead \o Fenced(BlockContent(case)) \o case.trail

\* the JSON values of nesting depth at most d
Atoms == {<<"str", FieldC>>, Num("1"), <<"lit", NullText>>}

RECURSIVE ValuesOfDepth(_)
ValuesOfDepth(d) ==
    IF d = 0 THEN Atoms \cup {<<"obj", <<>>>>, <<"arr", <<>>>>}
    ELSE LET inner == ValuesOfDepth(d - 1)
         IN  inner
             \cup {<<"obj", <<<<k, v>>>>>> : k \in {FieldC, KeyG}, v \in inner}
             \cup {<<"obj", <<<<KeyG, Num("1")>>, <<KeyN, v>>>>>> : v \in inner}
             \cup {<<"arr", <<v>>>> : v \in inner}
             \cup {<<"arr", <<Num("1"), v>>>> : v \in inner}

\* a text for the bracket scan: after `pre` a first JSON value without the
\* required field as a key of a top-level object (or the start of one that
\* does not decode), then possibly the object {"c": 5}
FirstKinds == {"none", "array", "object_other", "array_with_match", "undecodable"}

FirstText(kind) ==
    CASE kind = "array" -> <<"[", "1", "]", SP>>
      [] kind = "object_other" -> ObjOne(KeyG, <<"1">>) \o <<SP>>
      [] kind = "array_with_match" ->
            <<"[">> \o ObjOne(FieldC, <<"1">>) \o <<"]", SP>>
      [] kind = "undecodable" -> <<"{", "x", SP>>
      [] OTHER -> <<>>

FindCases ==
    {[NoCase EXCEPT !.pre = p, !.first = f, !.target = t] :
        p \in {<<>>, <<"x", SP>>, <<"x", "x", SP>>}, f \in FirstKinds,
        t \in {"match", "none"}}

FindText(case) ==
    case.pre \o FirstText(case.first)
    \o (IF case.target = "match" THEN ObjOne(FieldC, <<"5">>) ELSE <<>>)

ExIdle ==
    [phase |-> "input", fn |-> "", case |-> NoCase, text |-> <<>>,
     value |-> JsonNone, field |-> FieldC, blocks |-> <<>>, found |-> FALSE,
     out |-> ExtractReturns(JsonNone)]

ExInputs ==
    {[ExIdle EXCEPT !.fn = "_contains_required_field", !.value = v] :
        v \in ValuesOfDepth(MaxDepth)}
    \cup {[ExIdle EXCEPT !.fn = "_extract_json_blocks", !.case = b,
                         !.text = BlockText(b)] : b \in BlockCases}
    \cup {[ExIdle EXCEPT !.fn = "extract_json_from_output", !.case = o,
                         !.text = OutputText(o)] : o \in OutputCases}
    \cup {[ExIdle EXCEPT !.fn = "_find_json_objects", !.case = t,
                         !.text = FindText(t)] : t \in FindCases}

\* the variables of the pipeline while no issue is being processed
Parked ==
    /\ cfg = DirectConfig
    /\ pc = "parked"
    /\ stage = "triage"
    /\ states = [a \in AgentNames |-> NoAgentState]
    /\ disk = [a \in AgentNames |-> "absent"]
    /\ saves = 0
    /\ lastIn = NoInput
    /\ lastRun = NoRun
    /\ pipeline = NewPipelineState
    /\ handler = "none"
    /\ skipPath = "none"
    /\ effects = NoEffects
    /\ metrics = "none"
    /\ result = "none"
    /\ calls = 0

ExInit ==
    /\ Parked
    /\ ex \in ExInputs
    /\ rc = RcOff
    /\ lk = LkOff
    /\ bt = BtOff
    /\ sv = SvOff
    /\ rj = RjOff
    /\ gh = GhOff
    /\ sn = SnOff

ContainsCall ==
    /\ ex.phase = "input" /\ ex.fn = "_contains_required_field"
    /\ ex' = [ex EXCEPT !.phase = "done",
                        !.found = ContainsRequiredField(ex.value, ex.field)]
    /\ UNCHANGED <<pvars, rc, lk, bt, sv, rj, gh, sn>>

BlocksCall ==
    /\ ex.phase = "input" /\ ex.fn = "_extract_json_blocks"
    /\ ex' = [ex EXCEPT !.phase = "done", !.blocks = ExtractJsonBlocks(ex.text)]
    /\ UNCHANGED <<pvars, rc, lk, bt, sv, rj, gh, sn>>

ExtractCall ==
    /\ ex.phase = "input" /\ ex.fn = "extract_json_from_output"
    /\ ex' = [ex EXCEPT !.phase = "done",
                        !.out = ExtractJsonFromOutput(ex.text, ex.field)]
    /\ UNCHANGED <<pvars, rc, lk, bt, sv, rj, gh, sn>>

FindCall ==
    /\ ex.phase = "input" /\ ex.fn = "_find_json_objects"
    /\ ex' = [ex EXCEPT !.phase = "done",
                        !.out = ExtractReturns(FindJsonObjects(ex.text, ex.field))]
    /\ UNCHANGED <<pvars, rc, lk, bt, sv, rj, gh, sn>>

ExNext ==
    \/ ContainsCall
    \/ BlocksCall
    \/ ExtractCall
    \/ FindCall

ExSpec == ExInit /\ [][ExNext]_vars
-----------------------------------------------------------------------------
(* run_claude: src/claude_runner.py, lines 32-108; specification RcSpec *)

\* the most retries a call is given (the default is 2)
MaxRetries == 2

\* retry_backoff_sec, in seconds
Backoffs == {1, 2}

DurationKey ==
    <<"d", "u", "r", "a", "t", "i", "o", "n", "_", "m", "s">>

CostKey ==
    <<"t", "o", "t", "a", "l", "_", "c", "o", "s", "t", "_", "u", "s", "d">>

\* duration_ms and cost_usd as the scan of lines 68-80 leaves them, or the
\* exception that leaves the scan ("" when none does)
Metered(duration_ms, cost_usd) ==
    [exc |-> "", duration_ms |-> duration_ms, cost_usd |-> cost_usd]

NoMeter == Metered(Num("0"), Num("0"))

\* lines 75-78 for one line, msg being what json.loads gave for it: only a
\* JSONDecodeError is caught
MeterLine(msg, meter) ==
    IF ~msg.ok THEN meter
    ELSE IF ~IsDict(msg.val) THEN [meter EXCEPT !.exc = "AttributeError"]
    ELSE IF DictGet(msg.val, TypeKey, JsonNone) = <<"str", ResultText>>
    THEN Metered(DictGet(msg.val, DurationKey, Num("0")),
                 DictGet(msg.val, CostKey, Num("0")))
    ELSE meter

\* the loop of lines 71-80
RECURSIVE MeterLines(_, _)
RECURSIVE MeterNext(_, _)
MeterLines(lines, meter) ==
    IF lines = <<>> THEN meter
    ELSE IF Strip(Head(lines)) = <<>> THEN MeterLines(Tail(lines), meter)
    ELSE MeterNext(Tail(lines), MeterLine(JsonLoads(Head(lines)), meter))

MeterNext(lines, meter) ==
    IF meter.exc # "" THEN meter ELSE MeterLines(lines, meter)

MeterScan(output) == MeterLines(SplitLines(output), NoMeter)

\* what the process may write to stdout, by kind
StdoutKinds ==
    {"empty", "result_metered", "result_bare", "not_json", "number", "array",
     "null", "string", "assistant_then_result"}

StdoutText(kind) ==
    CASE kind = "result_metered" ->
            <<"{">> \o StrLit(TypeKey) \o <<":">> \o StrLit(ResultText) \o <<",">>
            \o StrLit(DurationKey) \o <<":", "7", ",">>
            \o StrLit(CostKey) \o <<":", "3", "}">>
      [] kind = "result_bare" -> ObjOne(TypeKey, StrLit(ResultText))
      [] kind = "not_json" -> <<"x", "{", NL, "d", "o", "n", "e">>
      [] kind = "number" -> <<"1", "2", "3">>
      [] kind = "array" -> <<"[", "1", "]">>
      [] kind = "null" -> NullText
      [] kind = "string" -> StrLit(<<"x">>)
      [] kind = "assistant_then_result" ->
            EventLine(<<<<"h", "i">>>>) \o <<NL>>
            \o ObjTwo(TypeKey, StrLit(ResultText), DurationKey, <<"7">>) \o <<NL>>
      [] OTHER -> <<>>

\* the stdout kinds with a line that is valid JSON but no object
NonObjectKinds == {"number", "array", "null", "string"}

\* what subprocess.run gave on the current attempt: a completed process
\* (returncode, stdout, stderr) or TimeoutExpired
NoAttempt == [how |-> "none", returncode |-> 0, stdout |-> "empty", stderr |-> ""]

Completed(returncode, stdout, stderr) ==
    [how |-> "exit", returncode |-> returncode, stdout |-> stdout, stderr |-> stderr]

TimedOut == [how |-> "timeout", returncode |-> 0, stdout |-> "empty", stderr |-> ""]

AttemptOutcomes ==
    {TimedOut}
    \cup {Completed(code, out, err) :
            code \in {0, 1}, out \in StdoutKinds, err \in {"", "boom"}}

\* what run_claude gives its caller: a ClaudeResult, or an exception
NoResult ==
    [kind |-> "none", success |-> FALSE, error |-> "", exc |-> "",
     duration_ms |-> Num("0"), cost_usd |-> Num("0")]

ClaudeResult(success, meter, error) ==
    [kind |-> "ret", success |-> success, error |-> error, exc |-> "",
     duration_ms |-> meter.duration_ms, cost_usd |-> meter.cost_usd]

RcRaises(exc) == [NoResult EXCEPT !.kind = "raise", !.exc = exc]

RcInit ==
    /\ Parked
    /\ ex = ExOff
    /\ lk = LkOff
    /\ bt = BtOff
    /\ sv = SvOff
    /\ rj = RjOff
    /\ gh = GhOff
    /\ sn = SnOff
    /\ \E retries \in 0..MaxRetries, backoff \in Backoffs :
          rc = [phase |-> "loop", retries |-> retries, backoff |-> backoff,
                attempt |-> 0, invocations |-> 0, cur |-> NoAttempt,
                meter |-> NoMeter, last_error |-> "", sleeps |-> <<>>,
                timeouts |-> {}, result |-> NoResult]

\* lines 52-61: the next attempt; subprocess.run returns or times out
RcRun ==
    /\ rc.phase = "loop"
    /\ rc.attempt <= rc.retries
    /\ \E outcome \in AttemptOutcomes :
          rc' = [rc EXCEPT !.attempt = @ + 1, !.invocations = @ + 1,
                           !.cur = outcome,
                           !.meter = NoMeter,
                           !.timeouts = IF outcome.how = "timeout"
                                        THEN @ \cup {rc.attempt + 1} ELSE @,
                           !.phase = IF outcome.how = "timeout"
                                     THEN "timed_out" ELSE "ran"]
    /\ UNCHANGED <<pvars, ex, lk, bt, sv, rj, gh, sn>>

\* lines 63-80: the scan for the result event; an exception other than
\* JSONDecodeError leaves run_claude
RcScanned(meter) ==
    IF meter.exc # ""
    THEN [rc EXCEPT !.phase = "done", !.result = RcRaises(meter.exc)]
    ELSE [rc EXCEPT !.phase = "scanned", !.meter = meter]

RcScan ==
    /\ rc.phase = "ran"
    /\ rc' = RcScanned(MeterScan(StdoutText(rc.cur.stdout)))
    /\ UNCHANGED <<pvars, ex, lk, bt, sv, rj, gh, sn>>

\* lines 82-89
RcReturnSuccess ==
    /\ rc.phase = "scanned"
    /\ rc.cur.returncode = 0
    /\ rc' = [rc EXCEPT !.phase = "done",
                        !.result = ClaudeResult(TRUE, rc.meter, "")]
    /\ UNCHANGED <<pvars, ex, lk, bt, sv, rj, gh, sn>>

\* line 91: result.stderr or "Claude CLI failed"
ErrorText(stderr) == IF stderr = "" THEN "Claude CLI failed" ELSE stderr

\* lines 91-94
RcRetryAfterExit ==
    /\ rc.phase = "scanned"
    /\ rc.cur.returncode # 0
    /\ rc.attempt <= rc.retries
    /\ rc' = [rc EXCEPT !.phase = "loop",
                        !.last_error = ErrorText(rc.cur.stderr),
                        !.sleeps = Append(@, rc.backoff * rc.attempt)]
    /\ UNCHANGED <<pvars, ex, lk, bt, sv, rj, gh, sn>>

\* lines 91-101
RcReturnFailure ==
    /\ rc.phase = "scanned"
    /\ rc.cur.returncode # 0
    /\ rc.attempt > rc.retries
    /\ rc' = [rc EXCEPT !.phase = "done",
                        !.last_error = ErrorText(rc.cur.stderr),
                        !.result = ClaudeResult(FALSE, rc.meter,
                                                ErrorText(rc.cur.stderr))]
    /\ UNCHANGED <<pvars, ex, lk, bt, sv, rj, gh, sn>>

\* lines 103-107
RcRetryAfterTimeout ==
    /\ rc.phase = "timed_out"
    /\ rc.attempt <= rc.retries
    /\ rc' = [rc EXCEPT !.phase = "loop",
                        !.last_error = "Claude timed out",
                        !.sleeps = Append(@, rc.backoff * rc.attempt)]
    /\ UNCHANGED <<pvars, ex, lk, bt, sv, rj, gh, sn>>

\* lines 103-108
RcRaiseTimeout ==
    /\ rc.phase = "timed_out"
    /\ rc.attempt > rc.retries
    /\ rc' = [rc EXCEPT !.phase = "done",
                        !.last_error = "Claude timed out",
                        !.result = RcRaises("ClaudeTimeoutError")]
    /\ UNCHANGED <<pvars, ex, lk, bt, sv, rj, gh, sn>>

RcNext ==
    \/ RcRun
    \/ RcScan
    \/ RcReturnSuccess
    \/ RcRetryAfterExit
    \/ RcReturnFailure
    \/ RcRetryAfterTimeout
    \/ RcRaiseTimeout

RcSpec == RcInit /\ [][RcNext]_vars
-----------------------------------------------------------------------------
(* The workspace lock: run.py, lines 31-161; specification LockSpec *)

\* concurrently started invocations of the tool on one workspace
NumProcs == 2

\* issue numbers given to one invocation
MaxIssues == 2

\* seconds a blocked flock is followed for
MaxWait == 3

\* STRATO_LOCK_TIMEOUT_SEC as Config.load accepts it (min_val=0), 0 being
\* the default: wait forever
LockTimeouts == {0, 1, 2}

Procs == 1..NumProcs

\* no lock file at the lock path, no holder of a lock file, no open handle
NoFile == 0

NoProc == 0

\* the lock files created so far: each open() of an absent path makes one
LockFiles == 1..NumProcs

\* the invocations that hold an flock on a lock file
Holders == {p \in Procs : \E f \in LockFiles : lk.holder[f] = p}

\* the invocations that are writing to the workspace directory: git clone
\* of ensure_tool_clone, and process_issue's git and agent work
Writers == {p \in Procs : lk.pc[p] \in {"cloning", "working"}}

\* main has returned, or the process is gone
Exited(p) == lk.pc[p] \in {"returned", "crashed"}

LockInit ==
    /\ Parked
    /\ ex = ExOff
    /\ rc = RcOff
    /\ bt = BtOff
    /\ sv = SvOff
    /\ rj = RjOff
    /\ gh = GhOff
    /\ sn = SnOff
    /\ \E ignored \in BOOLEAN, clone \in {"absent", "not_repo", "ready"},
          issues \in [Procs -> 1..MaxIssues], timeout \in LockTimeouts :
          lk = [phase |-> "on",
                lock_timeout_sec |-> timeout,
                waited |-> [p \in Procs |-> 0],
                ignored |-> ignored,
                clone |-> clone,
                path |-> NoFile,
                made |-> 0,
                holder |-> [f \in LockFiles |-> NoProc],
                pc |-> [p \in Procs |-> "start"],
                fd |-> [p \in Procs |-> NoFile],
                left |-> issues,
                code |-> [p \in Procs |-> 0]]

\* lines 73-77: Config.load raises and the process ends with status 1
LkConfigError(p) ==
    /\ lk.pc[p] = "start"
    /\ lk' = [lk EXCEPT !.pc[p] = "returned", !.code[p] = 1]
    /\ UNCHANGED <<pvars, ex, rc, bt, sv, rj, gh, sn>>

\* lines 33-38, 40: tool_dir exists with .git (a clone under way has made
\* it), or does not exist
LkCheckClone(p) ==
    /\ lk.pc[p] = "start"
    /\ lk.clone \in {"absent", "cloning", "ready"}
    /\ lk' = [lk EXCEPT !.pc[p] = IF lk.clone = "absent" THEN "to_clone"
                                  ELSE "ensured"]
    /\ UNCHANGED <<pvars, ex, rc, bt, sv, rj, gh, sn>>

\* lines 35-37, 83-86: tool_dir exists without .git (a clone under way may
\* not have made it yet): RuntimeError, main returns 1
LkCheckNotRepo(p) ==
    /\ lk.pc[p] = "start"
    /\ lk.clone \in {"not_repo", "cloning"}
    /\ lk' = [lk EXCEPT !.pc[p] = "returned", !.code[p] = 1]
    /\ UNCHANGED <<pvars, ex, rc, bt, sv, rj, gh, sn>>

\* lines 40-47: git clone starts to write tool_dir
LkStartClone(p) ==
    /\ lk.pc[p] = "to_clone"
    /\ lk.clone = "absent"
    /\ lk' = [lk EXCEPT !.pc[p] = "cloning", !.clone = "cloning"]
    /\ UNCHANGED <<pvars, ex, rc, bt, sv, rj, gh, sn>>

\* lines 47-49, 83-86: git clone fails (the destination exists by now, or
\* the source cannot be read): RuntimeError, main returns 1
LkCloneFails(p) ==
    /\ lk.pc[p] = "to_clone"
    /\ lk' = [lk EXCEPT !.pc[p] = "returned", !.code[p] = 1]
    /\ UNCHANGED <<pvars, ex, rc, bt, sv, rj, gh, sn>>

\* lines 47-51: git clone has written the clone
LkFinishClone(p) ==
    /\ lk.pc[p] = "cloning"
    /\ lk' = [lk EXCEPT !.pc[p] = "ensured", !.clone = "ready"]
    /\ UNCHANGED <<pvars, ex, rc, bt, sv, rj, gh, sn>>

\* lines 56-57: open(lock_path, "a") opens the file at the path, creating
\* it when there is none
LkOpen(p) ==
    /\ lk.pc[p] = "ensured"
    /\ lk' = IF lk.path = NoFile
             THEN [lk EXCEPT !.pc[p] = "opened", !.made = @ + 1,
                             !.path = lk.made + 1, !.fd[p] = lk.made + 1]
             ELSE [lk EXCEPT !.pc[p] = "opened", !.fd[p] = lk.path]
    /\ UNCHANGED <<pvars, ex, rc, bt, sv, rj, gh, sn>>

\* line 58: flock(LOCK_EX) returns once no other open handle of the same
\* file holds the lock
LkFlock(p) ==
    /\ lk.pc[p] = "opened"
    /\ lk.holder[lk.fd[p]] = NoProc
    /\ lk' = [lk EXCEPT !.pc[p] = "locked", !.holder[lk.fd[p]] = p]
    /\ UNCHANGED <<pvars, ex, rc, bt, sv, rj, gh, sn>>

\* line 58: a second passes while flock(LOCK_EX) blocks, another handle
\* of the file holding the lock; config.lock_timeout_sec is not read
LkWait(p) ==
    /\ lk.pc[p] = "opened"
    /\ lk.holder[lk.fd[p]] # NoProc
    /\ lk.waited[p] < MaxWait
    /\ lk' = [lk EXCEPT !.waited[p] = @ + 1]
    /\ UNCHANGED <<pvars, ex, rc, bt, sv, rj, gh, sn>>

\* lines 105-113: process_issue starts on the next issue
LkStartIssue(p) ==
    /\ lk.pc[p] = "locked"
    /\ lk.left[p] > 0
    /\ lk' = [lk EXCEPT !.pc[p] = "working", !.left[p] = @ - 1]
    /\ UNCHANGED <<pvars, ex, rc, bt, sv, rj, gh, sn>>

\* lines 155, 226: git clean -fd removes the untracked files of the work
\* tree, the lock file among them unless the repository ignores it; the
\* open handles keep the removed file
LkClean(p) ==
    /\ lk.pc[p] = "working"
    /\ lk' = [lk EXCEPT !.path = IF lk.ignored THEN @ ELSE NoFile]
    /\ UNCHANGED <<pvars, ex, rc, bt, sv, rj, gh, sn>>

\* lines 113-122: process_issue returns or raises, the loop goes on
LkFinishIssue(p) ==
    /\ lk.pc[p] = "working"
    /\ lk' = [lk EXCEPT !.pc[p] = "locked"]
    /\ UNCHANGED <<pvars, ex, rc, bt, sv, rj, gh, sn>>

\* close() of the handle, by main's finally or by the OS: the lock the
\* handle holds is released
Closed(p) == [f \in LockFiles |-> IF lk.holder[f] = p THEN NoProc ELSE lk.holder[f]]

\* lines 124-143: the summary, return 0 or 1; finally closes the handle
LkReturn(p) ==
    /\ lk.pc[p] = "locked"
    /\ lk.left[p] = 0
    /\ \E code \in {0, 1} :
          lk' = [lk EXCEPT !.pc[p] = "returned", !.code[p] = code,
                           !.holder = Closed(p), !.fd[p] = NoFile]
    /\ UNCHANGED <<pvars, ex, rc, bt, sv, rj, gh, sn>>

\* lines 95-101, 142-143: an exception inside the try block (GitHubClient,
\* GitOps, mkdir) leaves main through finally
LkRaise(p) ==
    /\ lk.pc[p] = "locked"
    /\ lk' = [lk EXCEPT !.pc[p] = "returned", !.code[p] = 1,
                        !.holder = Closed(p), !.fd[p] = NoFile]
    /\ UNCHANGED <<pvars, ex, rc, bt, sv, rj, gh, sn>>

\* the process exits at any point after open(): the OS closes its handles
LkProcessExit(p) ==
    /\ lk.pc[p] \in {"opened", "locked", "working"}
    /\ lk' = [lk EXCEPT !.pc[p] = "crashed", !.code[p] = 1,
                        !.holder = Closed(p), !.fd[p] = NoFile]
    /\ UNCHANGED <<pvars, ex, rc, bt, sv, rj, gh, sn>>

LockNext ==
    \E p \in Procs :
        \/ LkConfigError(p)
        \/ LkCheckClone(p)
        \/ LkCheckNotRepo(p)
        \/ LkStartClone(p)
        \/ LkCloneFails(p)
        \/ LkFinishClone(p)
        \/ LkOpen(p)
        \/ LkFlock(p)
        \/ LkWait(p)
        \/ LkStartIssue(p)
        \/ LkClean(p)
        \/ LkFinishIssue(p)
        \/ LkReturn(p)
        \/ LkRaise(p)
        \/ LkProcessExit(p)

LockSpec == LockInit /\ [][LockNext]_vars

-----------------------------------------------------------------------------
(* One invocation of main over a batch of issues: run.py, lines 62-143,    *)
(* with process_issue and its handlers at the granularity of their calls   *)
(* on the tracker and on the workspace.  src/git_ops.py is not part of the *)
(* sources at hand: a GitOps call does what the version-control interface  *)
(* of section 6 of the specification names, or raises GitError.            *)

\* longest list of issue numbers given on the command line
MaxBatch == 2

IssueNumbers == {1, 2}

\* args.issues
Batches == UNION {[1..n -> IssueNumbers] : n \in 1..MaxBatch}

\* the classes an exception is an instance of
Mro(cls) ==
    CASE cls = "JSONDecodeError" -> {"JSONDecodeError", "ValueError", "Exception"}
      [] cls = "ValueError"      -> {"ValueError", "Exception"}
      [] OTHER                   -> {cls, "Exception"}

\* `except <classes>` catches an exception of class cls
Catches(classes, cls) == classes \cap Mro(cls) # {}

\* a branch that does not exist, and one holding the commits of some runs
NoBranch == [exists |-> FALSE, runs |-> {}]

Branch(runs) == [exists |-> TRUE, runs |-> runs]

\* the tool clone: the branch checked out (0 the base branch, n the feature
\* branch of issue n), the runs whose uncommitted changes lie in the
\* worktree, the runs whose commits each feature branch holds locally and
\* on origin, and the runs whose pull request for it is open.  A run of
\* process_issue is named by its position in the batch, and 0 names a run
\* of an earlier invocation of the tool
FreshClone ==
    [cur |-> 0, dirty |-> {},
     local |-> [n \in IssueNumbers |-> NoBranch],
     remote |-> [n \in IssueNumbers |-> NoBranch],
     pr |-> [n \in IssueNumbers |-> {}]]

\* what an earlier invocation that published a fix for issue 1 left behind
UsedClone(dirty) ==
    [FreshClone EXCEPT !.cur = 1, !.dirty = dirty,
                       !.local[1] = Branch({0}), !.remote[1] = Branch({0}),
                       !.pr[1] = {0}]

Workspaces == {FreshClone, UsedClone({}), UsedClone({0})}

\* one run of process_issue: what it returned ("raised": an exception left
\* it), the pipeline status, the status written to metrics.jsonl, and the
\* calls it made
NewRun ==
    [outcome |-> "none", status |-> "none", metrics |-> "none", comments |-> 0,
     cleanups |-> 0, git_error |-> FALSE, created |-> FALSE]

NoResults == [success |-> <<>>, failed |-> <<>>, skipped |-> <<>>]

\* the git commands cleanup_git_state can see fail
CleanupFailures == SUBSET {"discard", "checkout", "delete"}

\* cleanup_git_state, lines 146-161: the unchecked commands fail silently
\* and delete_branch's GitError is swallowed
CleanupGitState(ws, n, fails) ==
    LET discarded == IF "discard" \in fails THEN ws ELSE [ws EXCEPT !.dirty = {}]
        on_base == IF "checkout" \in fails THEN discarded
                   ELSE [discarded EXCEPT !.cur = 0]
    IN  IF "delete" \in fails \/ on_base.cur = n THEN on_base
        ELSE [on_base EXCEPT !.local[n] = NoBranch]

NotCleanedUp(run) == run

CleanedUp(run) == [run EXCEPT !.cleanups = @ + 1]

Commented(run) == [run EXCEPT !.comments = @ + 1]

\* what the collaborators answer during lines 222-251: whether the
\* unchecked discard commands work, whether `gh pr list` answers, and the
\* call that fails ("none": none does)
PrepareEnvs ==
    [quiet : BOOLEAN, listed : BOOLEAN,
     fail : {"none", "fetch", "checkout", "reset_hard", "close_pr",
             "delete_branch", "delete_remote_branch", "create_branch"}]

\* lines 222-256 on the workspace ws for run k of issue n: the workspace
\* left, and the exception that ended the preparation ("" when none did)
Prepared(ws, n, e) ==
    LET w1 == IF ws.dirty # {} /\ e.quiet THEN [ws EXCEPT !.dirty = {}] ELSE ws
        w2 == [w1 EXCEPT !.cur = 0]
        closes == ws.pr[n] # {} /\ e.listed
        w3 == IF closes THEN [w2 EXCEPT !.pr[n] = {}] ELSE w2
        w4 == [w3 EXCEPT !.local[n] = NoBranch]
        w5 == [w4 EXCEPT !.remote[n] = NoBranch]
        w6 == [w5 EXCEPT !.local[n] = Branch({}), !.cur = n]
    IN  CASE e.fail \in {"fetch", "checkout"} -> [ws |-> w1, exc |-> "GitError"]
          [] e.fail = "reset_hard" -> [ws |-> w2, exc |-> "GitError"]
          [] e.fail = "close_pr" /\ closes -> [ws |-> w2, exc |-> "GitHubError"]
          [] e.fail = "delete_branch" /\ ws.local[n] # NoBranch ->
                [ws |-> w3, exc |-> "GitError"]
          [] e.fail = "delete_remote_branch" -> [ws |-> w4, exc |-> "GitError"]
          [] e.fail = "create_branch" -> [ws |-> w5, exc |-> "GitError"]
          [] OTHER -> [ws |-> w6, exc |-> ""]

\* what the fix agent left in the workspace
AgentWork == {"none", "uncommitted", "committed"}

Worked(ws, n, k, work) ==
    CASE work = "uncommitted" -> [ws EXCEPT !.dirty = @ \cup {k}]
      [] work = "committed"   -> [ws EXCEPT !.local[n] = Branch(@.runs \cup {k})]
      [] OTHER                -> ws

\* what the collaborators answer inside handle_success
PublishEnvs ==
    [commit : {"ok", "GitError"}, diff : BOOLEAN, push : {"ok", "GitError"},
     create_pr : {"ok", "GitHubError", "JSONDecodeError"},
     comment : {"ok", "GitHubError"}]

Ended(ws, run, outcome) == [ws |-> ws, run |-> [run EXCEPT !.outcome = outcome]]

\* handle_success, lines 288-440, for run k of issue n: the workspace and
\* the run it leaves; outcome "raised" when an exception leaves it
Published(ws, run, n, k, e) ==
    LET committed == IF ws.dirty = {} THEN ws
                     ELSE [ws EXCEPT !.local[n] = Branch(@.runs \cup ws.dirty),
                                      !.dirty = {}]
        pushed == [committed EXCEPT !.remote[n] = committed.local[n]]
        opened == [pushed EXCEPT !.pr[n] = @ \cup {k}]
        failed_git == [run EXCEPT !.git_error = TRUE]
        commented(out) == IF e.comment = "ok" THEN out ELSE "failed"
    IN  IF ws.dirty # {} /\ e.commit = "GitError" THEN Ended(ws, failed_git, "failed")
        ELSE IF committed.local[n].runs = {} \/ ~e.diff
        THEN Ended(committed, Commented(run), commented("skipped"))
        ELSE IF e.push = "GitError" THEN Ended(committed, failed_git, "failed")
        ELSE IF e.create_pr = "GitHubError" THEN Ended(pushed, run, "failed")
        ELSE IF e.create_pr = "JSONDecodeError" THEN Ended(pushed, run, "raised")
        ELSE Ended(opened, Commented(run), commented("success"))

\* lines 114-122: the list an issue is appended to
ListForDropsRaised(outcome) ==
    CASE outcome = "success" -> "success"
      [] outcome = "skipped" -> "skipped"
      [] outcome = "failed"  -> "failed"
      [] OTHER               -> "none"

ListFor(outcome) ==
    CASE outcome = "success" -> "success"
      [] outcome = "skipped" -> "skipped"
      [] OTHER               -> "failed"

\* where main goes after an issue has been counted
AfterIssueStopsOnRaise(outcome) == IF outcome = "raised" THEN "summary" ELSE "loop"

AfterIssue(outcome) == "loop"

BatchInit ==
    /\ Parked
    /\ ex = ExOff
    /\ rc = RcOff
    /\ lk = LkOff
    /\ sv = SvOff
    /\ rj = RjOff
    /\ gh = GhOff
    /\ sn = SnOff
    /\ \E issues \in Batches, ws \in Workspaces :
         bt = [phase |-> "on", pc |-> "load", issues |-> issues, i |-> 0,
               results |-> NoResults, code |-> 0, reported |-> FALSE,
               exc |-> "", cloned |-> FALSE, locked |-> FALSE, ws |-> ws,
               run |-> NewRun, done |-> <<>>]

\* the issue number and the record of the run under way; bt.done holds
\* the outcomes of the runs the loop has counted
Issue == bt.issues[bt.i]

Run == bt.run

\* lines 73-77: Config.load returns, or raises ConfigError, which main's
\* `except ValueError` catches or lets through
BtLoadConfig ==
    /\ bt.pc = "load"
    /\ \E exc \in {"", "ConfigError"} :
         bt' = IF exc = "" THEN [bt EXCEPT !.pc = "clone"]
               ELSE IF Catches({"ValueError"}, exc)
               THEN [bt EXCEPT !.pc = "returned", !.code = 1, !.reported = TRUE,
                               !.exc = exc]
               ELSE [bt EXCEPT !.pc = "uncaught", !.exc = exc]
    /\ UNCHANGED <<pvars, ex, rc, lk, sv, rj, gh, sn>>

\* lines 82-87: ensure_tool_clone returns or raises RuntimeError
BtEnsureClone ==
    /\ bt.pc = "clone"
    /\ \E ok \in BOOLEAN :
         bt' = IF ok THEN [bt EXCEPT !.pc = "lock", !.cloned = TRUE]
               ELSE [bt EXCEPT !.pc = "returned", !.code = 1, !.reported = TRUE,
                               !.exc = "RuntimeError"]
    /\ UNCHANGED <<pvars, ex, rc, lk, sv, rj, gh, sn>>

\* lines 94-104
BtAcquireLock ==
    /\ bt.pc = "lock"
    /\ bt' = [bt EXCEPT !.pc = "loop", !.locked = TRUE]
    /\ UNCHANGED <<pvars, ex, rc, lk, sv, rj, gh, sn>>

\* line 106: the loop takes the next issue number
BtNextIssue ==
    /\ bt.pc = "loop"
    /\ bt.i < Len(bt.issues)
    /\ bt' = [bt EXCEPT !.pc = "fetch", !.i = @ + 1, !.run = NewRun]
    /\ UNCHANGED <<pvars, ex, rc, lk, sv, rj, gh, sn>>

\* lines 194-216: get_issue returns, raises GitHubError (process_issue
\* returns FAILED) or fails on the tracker's answer (the exception leaves
\* process_issue)
BtFetchIssue ==
    /\ bt.pc = "fetch"
    /\ \E exc \in {"", "GitHubError", "JSONDecodeError"} :
         bt' = CASE exc = "" -> [bt EXCEPT !.pc = "prepare"]
                 [] Catches({"GitHubError"}, exc) ->
                        [bt EXCEPT !.pc = "count", !.run.outcome = "failed"]
                 [] OTHER -> [bt EXCEPT !.pc = "count", !.run.outcome = "raised"]
    /\ UNCHANGED <<pvars, ex, rc, lk, sv, rj, gh, sn>>

\* lines 218-256: the branch preparation; `except GitError` returns FAILED,
\* close_pr's GitHubError leaves process_issue
BtPrepareBranch ==
    /\ bt.pc = "prepare"
    /\ \E e \in PrepareEnvs :
         LET p == Prepared(bt.ws, Issue, e)
         IN  bt' = CASE p.exc = "" ->
                          [bt EXCEPT !.pc = "pipeline", !.ws = p.ws,
                                     !.run.created = TRUE]
                     [] Catches({"GitError"}, p.exc) ->
                          [bt EXCEPT !.pc = "count", !.ws = p.ws,
                                     !.run.git_error = TRUE,
                                     !.run.outcome = "failed"]
                     [] OTHER ->
                          [bt EXCEPT !.pc = "count", !.ws = p.ws,
                                     !.run.outcome = "raised"]
    /\ UNCHANGED <<pvars, ex, rc, lk, sv, rj, gh, sn>>

\* lines 259-263 and 281-285: Pipeline.run and record_run_metrics; an
\* exception of either is answered by cleanup_git_state and raised again
BtRunPipeline ==
    /\ bt.pc = "pipeline"
    /\ \E status \in PipelineStatus \ {"running"}, work \in AgentWork,
          raises \in {"", "pipeline", "metrics"} :
         LET ws == Worked(bt.ws, Issue, bt.i, work)
         IN  IF raises = ""
             THEN bt' = [bt EXCEPT !.pc = "handle", !.ws = ws,
                                   !.run.status = status,
                                   !.run.metrics = status]
             ELSE \E fails \in CleanupFailures :
                    bt' = [bt EXCEPT !.pc = "count",
                                     !.ws = CleanupGitState(ws, Issue, fails),
                                     !.run =
                                         [CleanedUp(Run) EXCEPT
                                            !.outcome = "raised",
                                            !.status = IF raises = "metrics"
                                                       THEN status ELSE "none"]]
    /\ UNCHANGED <<pvars, ex, rc, lk, sv, rj, gh, sn>>

\* lines 266-267, 281-285: handle_success; an exception it lets through is
\* answered by cleanup_git_state and raised again
BtHandleSuccess ==
    /\ bt.pc = "handle"
    /\ Run.status = "success"
    /\ \E e \in PublishEnvs :
         LET h == Published(bt.ws, Run, Issue, bt.i, e)
         IN  IF h.run.outcome = "raised"
             THEN \E fails \in CleanupFailures :
                    bt' = [bt EXCEPT !.pc = "count",
                                     !.ws = CleanupGitState(h.ws, Issue, fails),
                                     !.run = CleanedUp(h.run)]
             ELSE bt' = [bt EXCEPT !.pc = "count", !.ws = h.ws, !.run = h.run]
    /\ UNCHANGED <<pvars, ex, rc, lk, sv, rj, gh, sn>>

\* lines 268-270 and 443-595: cleanup_git_state, then handle_skip, whose
\* comment's GitHubError is only logged
BtHandleSkip ==
    /\ bt.pc = "handle"
    /\ Run.status = "skipped"
    /\ \E fails \in CleanupFailures :
         bt' = [bt EXCEPT !.pc = "count",
                          !.ws = CleanupGitState(bt.ws, Issue, fails),
                          !.run = [Commented(CleanedUp(Run)) EXCEPT
                                           !.outcome = "skipped"]]
    /\ UNCHANGED <<pvars, ex, rc, lk, sv, rj, gh, sn>>

\* lines 271-280 and 598-698: handle_failure for a failed or blocked
\* pipeline: cleanup_git_state, the comment, FAILED
BtHandleFailure ==
    /\ bt.pc = "handle"
    /\ Run.status \in {"failed", "blocked"}
    /\ \E fails \in CleanupFailures :
         bt' = [bt EXCEPT !.pc = "count",
                          !.ws = CleanupGitState(bt.ws, Issue, fails),
                          !.run = [Commented(CleanedUp(Run)) EXCEPT
                                           !.outcome = "failed"]]
    /\ UNCHANGED <<pvars, ex, rc, lk, sv, rj, gh, sn>>

\* lines 112-122: the issue is appended to the list of its outcome, an
\* exception counting as a failure
BtCount ==
    /\ bt.pc = "count"
    /\ bt' = [bt EXCEPT !.pc = AfterIssue(Run.outcome),
                        !.done = Append(@, Run.outcome),
                        !.results =
                            IF ListFor(Run.outcome) = "none" THEN @
                            ELSE [@ EXCEPT ![ListFor(Run.outcome)] = Append(@, Issue)]]
    /\ UNCHANGED <<pvars, ex, rc, lk, sv, rj, gh, sn>>

\* line 141
ExitCode(results) == IF results.failed = <<>> THEN 0 ELSE 1

\* lines 124-143: the summary, the exit code, and the lock file closed
BtReturn ==
    /\ bt.pc \in {"loop", "summary"}
    /\ bt.pc = "loop" => bt.i = Len(bt.issues)
    /\ bt' = [bt EXCEPT !.pc = "returned", !.code = ExitCode(bt.results),
                        !.locked = FALSE]
    /\ UNCHANGED <<pvars, ex, rc, lk, sv, rj, gh, sn>>

BatchNext ==
    \/ BtLoadConfig
    \/ BtEnsureClone
    \/ BtAcquireLock
    \/ BtNextIssue
    \/ BtFetchIssue
    \/ BtPrepareBranch
    \/ BtRunPipeline
    \/ BtHandleSuccess
    \/ BtHandleSkip
    \/ BtHandleFailure
    \/ BtCount
    \/ BtReturn

BatchSpec == BatchInit /\ [][BatchNext]_vars

-----------------------------------------------------------------------------
(* Agent.save_state: src/agents/base.py, lines 72-76.  json.dump hands the *)
(* snapshot to the file object chunk by chunk; the file object buffers     *)
(* what it is given and writes it to the file when it is flushed or closed *)

\* a file that does not exist, and one with the chunks written to it
AbsentFile == [exists |-> FALSE, text |-> <<>>]

File(text) == [exists |-> TRUE, text |-> text]

\* AgentState.to_dict as json.dump writes it: models.py, lines 55-65
Snapshot(agent, status) == <<"{", agent, status, "}">>

\* <agent>.state.json before the call: no file, or an earlier snapshot
EarlierFiles(agent) ==
    {AbsentFile} \cup {File(Snapshot(agent, st)) : st \in AgentStatus}

SaveInit ==
    /\ Parked
    /\ ex = ExOff
    /\ rc = RcOff
    /\ lk = LkOff
    /\ bt = BtOff
    /\ rj = RjOff
    /\ gh = GhOff
    /\ sn = SnOff
    /\ \E agent \in AgentNames, status \in AgentStatus :
         \E old \in EarlierFiles(agent) :
            sv = [phase |-> "on", pc |-> "start", agent |-> agent, old |-> old,
                  new |-> Snapshot(agent, status), file |-> old,
                  buffer |-> <<>>, given |-> 0]

\* line 75: open(state_file, "w") creates the file or truncates it
SvOpen ==
    /\ sv.pc = "start"
    /\ sv' = [sv EXCEPT !.pc = "open", !.file = File(<<>>)]
    /\ UNCHANGED <<pvars, ex, rc, lk, bt, rj, gh, sn>>

\* line 76: json.dump gives the file object the next chunk
SvWrite ==
    /\ sv.pc = "open"
    /\ sv.given < Len(sv.new)
    /\ sv' = [sv EXCEPT !.given = @ + 1, !.buffer = Append(@, sv.new[sv.given + 1])]
    /\ UNCHANGED <<pvars, ex, rc, lk, bt, rj, gh, sn>>

\* the file object writes its buffer to the file
SvFlush ==
    /\ sv.pc = "open"
    /\ sv.buffer # <<>>
    /\ sv' = [sv EXCEPT !.file = File(@.text \o sv.buffer), !.buffer = <<>>]
    /\ UNCHANGED <<pvars, ex, rc, lk, bt, rj, gh, sn>>

\* the end of the with block: the buffer is written and the file closed
SvClose ==
    /\ sv.pc = "open"
    /\ sv.given = Len(sv.new)
    /\ sv' = [sv EXCEPT !.pc = "closed", !.file = File(@.text \o sv.buffer),
                        !.buffer = <<>>]
    /\ UNCHANGED <<pvars, ex, rc, lk, bt, rj, gh, sn>>

\* json.dump raises on a value it cannot serialize: the with block writes
\* the buffer, closes the file and lets the exception through
SvRaise ==
    /\ sv.pc = "open"
    /\ sv.given < Len(sv.new)
    /\ sv' = [sv EXCEPT !.pc = "raised", !.file = File(@.text \o sv.buffer),
                        !.buffer = <<>>]
    /\ UNCHANGED <<pvars, ex, rc, lk, bt, rj, gh, sn>>

\* the process is killed: what the file object still buffers is lost
SvCrash ==
    /\ sv.pc \in {"start", "open"}
    /\ sv' = [sv EXCEPT !.pc = "crashed", !.buffer = <<>>]
    /\ UNCHANGED <<pvars, ex, rc, lk, bt, rj, gh, sn>>

SaveNext ==
    \/ SvOpen
    \/ SvWrite
    \/ SvFlush
    \/ SvClose
    \/ SvRaise
    \/ SvCrash

SaveSpec == SaveInit /\ [][SaveNext]_vars

-----------------------------------------------------------------------------
(* Properties *)

Count(seq, x) == Cardinality({i \in DOMAIN seq : seq[i] = x})

Last(seq) == seq[Len(seq)]

\* Pipeline.run has returned a terminal PipelineState
Terminal == pipeline.status # "running"

\* execute() of the current stage attempt has returned
ExecuteReturned == pc = "returned"

\* the current stage attempt extracted an object from the process output
Extracted ==
    /\ lastIn.prompt = "ok" /\ lastIn.proc = "ok"
    /\ \/ lastIn.ext = "found"
       \/ lastIn.ext = "notfound" /\ lastIn.proc2 = "ok" /\ lastIn.ext2 = "found"

\* C1: TriageAgent.run returns success exactly when the classification is
\* FIXABLE_CODE or FIXABLE_CONFIG and the confidence is at least
\* min_triage_confidence (the boundary included); every other classification
\* and every confidence below the threshold returns skipped.
C1_TriageGate ==
    LET t == states["triage"]
    IN  /\ (t.status = "success")
            <=> (t.data.cls \in Fixable
                 /\ t.data.conf >= cfg.min_triage_confidence)
        /\ (t.data.cls # "" /\ t.status # "success") => t.status = "skipped"
        /\ (stage = "triage" /\ ExecuteReturned /\ Extracted
            /\ lastIn.hasCls /\ lastIn.cls \in Classification /\ lastIn.hasConf)
           => /\ (t.status = "success")
                    <=> (lastIn.cls \in Fixable
                         /\ lastIn.conf >= cfg.min_triage_confidence)
              /\ t.status \in {"success", "skipped"}

\* triage has returned success on a confidence equal to the threshold
C1_Witness ==
    /\ stage = "triage" /\ ExecuteReturned
    /\ lastIn.cls = "FIXABLE_CONFIG" /\ lastIn.hasConf
    /\ lastIn.conf = cfg.min_triage_confidence
    /\ states["triage"].status = "success"

C3_LoopInv ==
    /\ Count(pipeline.agents_completed, "review") <= cfg.max_fix_review_iterations
    /\ Count(pipeline.agents_completed, "fix") <= 1
    /\ pipeline.iteration <= cfg.max_fix_review_iterations
    /\ (Terminal /\ stage = "review" /\ Extracted
        /\ lastIn.approved \in {"false", "absent"})
        => /\ pipeline.status = "blocked"
           /\ Count(pipeline.agents_completed, "review")
                 = cfg.max_fix_review_iterations
           /\ Count(pipeline.agents_completed, "fix") = 1
           /\ Count(pipeline.agents_completed, "fix-revision")
                 = cfg.max_fix_review_iterations - 1
           /\ lastIn.concerns \in pipeline.failure_reason
           /\ (IF lastIn.hasVerdict THEN lastIn.verdict ELSE "UNKNOWN")
                 \in pipeline.failure_reason
    /\ pipeline.status = "blocked"
        => /\ stage = "review"
           /\ states["review"].status = "skipped"
           /\ ~states["review"].data.approved

C3_LoopBoundedAndBlocked == []C3_LoopInv /\ <>(pc = "done")

\* the budget of 3 is exhausted: 1 fix, 2 revisions and 3 reviews
C3_Witness ==
    /\ cfg.max_fix_review_iterations = MaxFixReviewIterationsDefault
    /\ pipeline.status = "blocked"
    /\ pipeline.agents_completed =
          <<"triage", "research", "fix", "review", "fix-revision", "review",
            "fix-revision", "review">>
    /\ lastIn.verdict = "REJECT" /\ "REJECT" \in pipeline.failure_reason
    /\ pc = "done"

\* the agents whose AgentState ended failed
FailedAgents == {a \in AgentNames : states[a].status = "failed"}

\* run() of the current stage attempt returned failed or raised
StageFailed ==
    /\ pc \notin {"fetch", "prepare", "start", "inrun"}
    /\ lastRun.kind = "raise" \/ (lastRun.kind = "ret" /\ lastRun.status = "failed")

\* C4: when a stage attempt ends failed (its run() returned failed or raised)
\* the run ends failed at that attempt: no stage is executed after it and
\* the run does not end success, skipped or blocked.
C4_FailedStageEndsRun ==
    /\ StageFailed
        => /\ states[AgentOf(stage)].status = "failed"
           /\ pc # "returned"
                => /\ pipeline.status = "failed"
                   /\ Last(pipeline.agents_completed) = stage
                   /\ result \in {"none", "failed", "raised"}
                   /\ handler \in {"none", "handle_failure"}
    /\ FailedAgents # {}
        => /\ FailedAgents = {AgentOf(stage)}
           /\ StageFailed
    /\ pipeline.status = "failed" => StageFailed

\* a revision of the fix raised and the run ended failed
C4_Witness ==
    /\ stage = "fix-revision" /\ lastRun.kind = "raise"
    /\ pipeline.status = "failed" /\ result = "failed"
    /\ states["review"].status = "skipped"

\* C5: when triage does not approve the issue the run ends skipped, its
\* failure_reason names the classification, agents_completed is [triage],
\* and no research, fix or review agent is ever constructed.
C5_TriageSkipEndsRun ==
    LET t == states["triage"]
        approves == t.data.cls \in Fixable
                    /\ t.data.conf >= cfg.min_triage_confidence
    IN  /\ (t.data.cls # "" /\ ~approves)
            => /\ stage = "triage"
               /\ \A a \in AgentNames \ {"triage"} :
                     states[a].status = "absent" /\ disk[a] = "absent"
               /\ Terminal
                    => /\ pipeline.status = "skipped"
                       /\ pipeline.agents_completed = <<"triage">>
                       /\ pipeline.failure_reason
                             = {ClassificationReason(t.data.cls)}
               /\ skipPath \in {"none", "classification"}
        /\ \A c1, c2 \in Classification :
              ClassificationReason(c1) = ClassificationReason(c2) => c1 = c2
        /\ (Terminal /\ t.data.cls = "OUT_OF_SCOPE")
              => pipeline.failure_reason = {"out of scope"}

\* a FIXABLE_CODE issue one unit below the threshold was skipped
C5_Witness ==
    /\ states["triage"].data.cls = "FIXABLE_CODE"
    /\ states["triage"].data.conf = cfg.min_triage_confidence - 1
    /\ pipeline.status = "skipped"
    /\ result = "skipped"

\* C6: when Fix reports no effective change the run ends skipped with a
\* reason containing "no changes" and no review of that fix is run; the
\* skip handler takes the fix-no-changes path exactly when fix's state file
\* exists and the reason contains "no changes".
C6_NoChangesSkips ==
    /\ (pc \notin {"start", "inrun"} /\ states["fix"].status = "skipped")
        => /\ stage \in {"fix", "fix-revision"}
           /\ pc # "returned"
                => /\ pipeline.status = "skipped"
                   /\ "no changes" \in pipeline.failure_reason
                   /\ Last(pipeline.agents_completed) = stage
    /\ (stage = "review" /\ pc \in {"start", "inrun", "returned"})
        => states["fix"].status = "success"
    /\ skipPath # "none"
        => ((skipPath = "handle_fix_no_changes")
             <=> (disk["fix"] # "absent"
                  /\ "no changes" \in pipeline.failure_reason))
    /\ (skipPath # "none" /\ states["fix"].status = "skipped")
        => skipPath = "handle_fix_no_changes"

\* a revision made no change after a review and the fix-no-changes comment
\* was posted
C6_Witness ==
    /\ stage = "fix-revision" /\ states["fix"].status = "skipped"
    /\ skipPath = "handle_fix_no_changes" /\ result = "skipped"

\* C7: ResearchAgent.run returns success whenever triage succeeded and the
\* external process exited successfully (run_claude returned success),
\* whatever the research confidence and whether or not a structured result
\* could be extracted.
C7_ResearchAlwaysSucceeds ==
    (stage = "research" /\ ExecuteReturned
     /\ states["triage"].status = "success"
     /\ lastIn.prompt = "ok" /\ lastIn.proc = "ok")
    => /\ lastRun.kind = "ret"
       /\ states["research"].status = "success"

\* the part of C7 that holds: a research confidence below
\* min_research_confidence, or the absence of any structured result,
\* returns success
C7_LowConfidenceProceeds ==
    (stage = "research" /\ ExecuteReturned
     /\ lastIn.prompt = "ok" /\ lastIn.proc = "ok"
     /\ lastIn.ext \in {"found", "notfound"})
    => /\ states["research"].status = "success"
       /\ lastIn.ext = "notfound"
            => states["research"].confidence = FallbackConfidence

\* the confidence a stage's payload reports (0 without the key)
Reported(a) ==
    IF states[a].data.hasConf THEN states[a].data.conf ELSE 0

\* C8: once the PipelineState is terminal, confidence_breakdown holds
\* exactly the stages whose AgentState status is success, each with the
\* confidence that stage reported, and aggregate_confidence is their
\* arithmetic mean (0 when no stage succeeded); skipped, failed and
\* unattempted stages do not contribute.
C8_AggregateIsMeanOfSucceeded ==
    Terminal =>
        LET b == pipeline.confidence_breakdown
            agg == pipeline.aggregate_confidence
            S == {a \in AgentNames : states[a].status = "success"}
            sum == (IF "triage" \in S THEN Reported("triage") ELSE 0)
                 + (IF "research" \in S THEN Reported("research") ELSE 0)
                 + (IF "fix" \in S THEN Reported("fix") ELSE 0)
                 + (IF "review" \in S THEN Reported("review") ELSE 0)
        IN  /\ DOMAIN b = S
            /\ \A a \in S : b[a] = Reported(a)
            /\ S = {} => agg.num = 0
            /\ S # {} => agg.den = Cardinality(S)
            /\ agg.num * (IF S = {} THEN 1 ELSE Cardinality(S)) = sum * agg.den

\* the scenario of section 8: 0.6, 0.9, 0.7 and 0.8 give (60+90+70+80)/4
C8_Witness ==
    /\ pipeline.status = "success"
    /\ pipeline.confidence_breakdown =
          [a \in AgentNames |->
              CASE a = "triage" -> 60 [] a = "research" -> 90
                [] a = "fix" -> 70 [] OTHER -> 80]
    /\ pipeline.aggregate_confidence = [num |-> 300, den |-> 4]

\* a blocked run: the review that did not approve does not contribute
C8_WitnessBlocked ==
    /\ pipeline.status = "blocked"
    /\ DOMAIN pipeline.confidence_breakdown = {"triage", "research", "fix"}
    /\ states["review"].data.conf = 80
    /\ pipeline.aggregate_confidence.den = 3

\* C9: an exception raised inside run() is caught by execute(), which
\* returns an AgentState with status failed and the exception's message as
\* its error; the exception does not leave execute(), so process_issue goes
\* on to its failure handler and does not raise because of it.
C9_ExecuteCatches ==
    (lastRun.kind = "raise" /\ pc \notin {"start", "inrun"})
    => /\ states[AgentOf(stage)].status = "failed"
       /\ states[AgentOf(stage)].error = lastRun.msg
       /\ states[AgentOf(stage)].error # ""
       /\ disk[AgentOf(stage)] = "failed"
       /\ handler \in {"none", "handle_failure"}
       /\ (pc = "done" /\ metrics # "none") => result = "failed"

\* the review's run() raised and the failure handler returned FAILED
C9_Witness ==
    /\ stage = "review" /\ lastRun = Raised(ScanErrorMsg)
    /\ states["review"].error = ScanErrorMsg
    /\ pc = "done" /\ result = "failed"

\* C10: execute() persists a running snapshot before run() is invoked and
\* exactly one more, with the final status, after run() returned or raised:
\* while run() executes the persisted status is running; once execute()
\* has returned it is success, failed or skipped and equal to the returned
\* AgentState's status.
C10_SnapshotsFollowExecute ==
    /\ pc = "inrun"
        => /\ disk[AgentOf(stage)] = "running"
           /\ states[AgentOf(stage)].status = "running"
           /\ saves = 1
    /\ (lastRun.kind # "none" /\ pc # "start")
        => /\ saves = 2
           /\ disk[AgentOf(stage)] = states[AgentOf(stage)].status
           /\ disk[AgentOf(stage)] \in {"success", "failed", "skipped"}
           /\ lastRun.kind = "ret" => disk[AgentOf(stage)] = lastRun.status
    /\ \A a \in AgentNames \ {AgentOf(stage)} :
           /\ disk[a] = states[a].status
           /\ disk[a] \in {"absent", "success", "failed", "skipped"}

\* the review is running: its snapshot says running, the earlier stages'
\* snapshots say success
C10_WitnessRunning ==
    /\ pc = "inrun" /\ stage = "review"
    /\ disk = [a \in AgentNames |-> IF a = "review" THEN "running" ELSE "success"]

\* execute() returned after run() raised: two snapshots, the last failed
C10_Witness ==
    /\ pc = "returned" /\ stage = "fix" /\ lastRun.kind = "raise"
    /\ saves = 2 /\ disk["fix"] = "failed"

\* the agent is executed on its own, outside Pipeline.run
Direct == pc \in {"direct_start", "direct_inrun", "direct_done"}

\* execute() of a research or review agent starts in this step: its
\* AgentState is created and its first snapshot persisted
CreatesState(a) ==
    /\ states[a]'.status = "running"
    /\ disk[a]' = "running"
    /\ saves' = 1

C11_CreatedAfterPredecessor ==
    /\ (~Direct /\ CreatesState("research"))
        => states["triage"].status = "success" /\ disk["triage"] = "success"
    /\ (~Direct /\ CreatesState("review"))
        => states["fix"].status = "success" /\ disk["fix"] = "success"

C11_GuardInv ==
    /\ (~Direct /\ states["research"].status # "absent")
        => states["triage"].status = "success"
    /\ (~Direct /\ stage = "review" /\ pc \in {"inrun", "returned"})
        => states["fix"].status = "success"
    /\ (pc = "direct_done"
        /\ states[PredecessorOf(stage)].status # "success")
        => /\ states[stage].status = "failed"
           /\ disk[stage] = "failed"
           /\ lastRun.kind = "ret"
           /\ calls = 0
    /\ (pc \in {"returned", "direct_done"} /\ stage \in {"research", "review"}
        /\ calls > 0)
        => states[PredecessorOf(stage)].status = "success"

\* C11: in a run of the pipeline a research AgentState is created and
\* persisted only when triage's AgentState has status success, and a review
\* AgentState only when fix's has; a ResearchAgent or ReviewAgent executed
\* without a successful predecessor state ends failed without having called
\* the external process.
C11_StageOrder == []C11_GuardInv /\ [][C11_CreatedAfterPredecessor]_vars

\* a ReviewAgent executed with a fix state that was skipped ended failed
C11_Witness ==
    /\ pc = "direct_done" /\ stage = "review"
    /\ states["fix"].status = "skipped"
    /\ states["review"].status = "failed" /\ calls = 0

\* in a pipeline run the review of a revised fix is created after that fix
C11_WitnessPipeline ==
    /\ pc = "inrun" /\ stage = "review" /\ pipeline.iteration = 2
    /\ states["fix"].status = "success"

-----------------------------------------------------------------------------
(* The output extractor: C12-C15, under ExSpec *)

ExDone(fn) == ex.phase = "done" /\ ex.fn = fn

\* the texts whose newest block or object the scanners cut short or skip
MisscannedKinds == {"both_fence_in_string", "raw_after_value"}

SegmentsOf(case) == {case.segs[j] : j \in 1..Len(case.segs)}

\* C12: extract_json_from_output is newest-match-first: of two fenced json
\* blocks that both contain the required field the later one is returned,
\* the second is returned when only it contains the field, and a match in
\* a later assistant text segment is preferred to one in an earlier segment.
C12_NewestMatchFirst ==
    (ExDone("extract_json_from_output") /\ ex.case.junk \notin MalformedJunk)
    => ex.out = ExtractReturns(NewestMatch(ex.case.segs))

\* the part of C12 that holds: the texts whose blocks hold no fence inside
\* a string and whose bare objects follow no other JSON value, in an output
\* whose other lines do not hold the field
C12_NewestOfWellScanned ==
    (ExDone("extract_json_from_output") /\ ex.case.junk \notin MalformedJunk
     /\ ex.case.junk # "field_event"
     /\ SegmentsOf(ex.case) \cap MisscannedKinds = {})
    => ex.out = ExtractReturns(NewestMatch(ex.case.segs))

\* an earlier segment with a match, a later one with two matching blocks:
\* the later segment's second block was returned
C12_WitnessWellScanned ==
    /\ ExDone("extract_json_from_output")
    /\ ex.case.format = "stream" /\ ex.case.segs = <<"single", "both">>
    /\ ex.out = ExtractReturns(ObjC("2"))

\* C13: _extract_json_blocks extracts whole a fenced json block whose
\* content has a string value holding a literal triple backtick, whatever
\* character follows it there (a language label, a quote, a space or a
\* newline), and the extracted block parses to the original object.
C13_BlockExtractedWhole ==
    ExDone("_extract_json_blocks")
    => /\ ex.blocks = <<BlockContent(ex.case)>>
       /\ JsonLoads(ex.blocks[1]).val
            = <<"obj", <<<<FieldC, <<"str", BlockString(ex.case)>>>>>>>>

\* the part of C13 that holds: a fence followed in the string by a label,
\* by the closing quote or by an (escaped) newline does not end the block
C13_BlockWholeUnlessSpace ==
    (ExDone("_extract_json_blocks") /\ ex.case.follow # "space")
    => /\ ex.blocks = <<BlockContent(ex.case)>>
       /\ JsonLoads(ex.blocks[1]).val
            = <<"obj", <<<<FieldC, <<"str", BlockString(ex.case)>>>>>>>>

C13_WitnessLabel ==
    /\ ExDone("_extract_json_blocks") /\ ex.case.follow = "label"
    /\ ex.blocks = <<BlockContent(ex.case)>>

\* the values nested in v at any depth through mappings and sequences,
\* v itself included
Children(v) ==
    IF IsDict(v) THEN {v[2][j][2] : j \in 1..Len(v[2])}
    ELSE IF IsList(v) THEN {v[2][j] : j \in 1..Len(v[2])}
    ELSE {}

RECURSIVE NestedIn(_)
NestedIn(v) == {v} \cup UNION {NestedIn(c) : c \in Children(v)}

\* C14: _contains_required_field(value, f) is true exactly when f is a key
\* of value or of a mapping nested at any depth inside it through mappings
\* and sequences; it is false for a string, a number or null, and where f
\* occurs only as a value.
C14_ContainsIffKeyNested ==
    ExDone("_contains_required_field")
    => /\ ex.found <=> \E m \in NestedIn(ex.value) : IsDict(m) /\ HasKey(m, ex.field)
       /\ ~(IsDict(ex.value) \/ IsList(ex.value)) => ~ex.found
       /\ ex.value \in {<<"arr", <<<<"str", ex.field>>>>>>,
                        <<"obj", <<<<KeyG, <<"str", ex.field>>>>>>>>}
            => ~ex.found

\* the field is a key of a mapping inside a sequence
C14_Witness ==
    /\ ExDone("_contains_required_field")
    /\ ex.value = <<"arr", <<Num("1"), ObjC("1")>>>>
    /\ ex.found

\* the field occurs only as a value
C14_WitnessValueOnly ==
    /\ ExDone("_contains_required_field")
    /\ ex.value = <<"obj", <<<<KeyG, <<"str", FieldC>>>>>>>>
    /\ ~ex.found

\* C15: for every input string extract_json_from_output returns, without
\* raising, a mapping that contains the required field at some depth or
\* None; lines that are valid JSON but no event objects, and events whose
\* message or content has an unexpected shape, are skipped.
C15_ExtractNeverRaises ==
    ExDone("extract_json_from_output")
    => /\ ex.out.kind = "ret"
       /\ \/ ex.out.val = JsonNone
          \/ IsDict(ex.out.val) /\ ContainsRequiredField(ex.out.val, ex.field)

\* the part of C15 that holds: the outputs whose every JSON line is an
\* event of the expected shape
C15_ReturnsOnWellFormed ==
    (ExDone("extract_json_from_output") /\ ex.case.junk \notin MalformedJunk)
    => /\ ex.out.kind = "ret"
       /\ \/ ex.out.val = JsonNone
          \/ IsDict(ex.out.val) /\ ContainsRequiredField(ex.out.val, ex.field)

C15_WitnessNotFound ==
    /\ ExDone("extract_json_from_output")
    /\ ex.case.junk = "garbage" /\ ex.case.segs = <<"prose">>
    /\ ex.out = ExtractReturns(JsonNone)

-----------------------------------------------------------------------------
(* run_claude: C16-C18, under RcSpec *)

RcDone == rc.phase = "done"

\* the attempt that ended the call completed with this exit code
EndedByExit(code) == RcDone /\ rc.cur.how = "exit" /\ rc.cur.returncode = code

ExitedNonZero == RcDone /\ rc.cur.how = "exit" /\ rc.cur.returncode # 0

\* the sleeps so far are backoff x 1, backoff x 2, ... one after each
\* failed attempt but the final one
SleepsLinear ==
    /\ \A k \in 1..Len(rc.sleeps) : rc.sleeps[k] = rc.backoff * k
    /\ Len(rc.sleeps) = IF rc.phase = "loop" THEN rc.invocations
                        ELSE rc.invocations - 1

RetrySchedule ==
    /\ rc.invocations <= rc.retries + 1
    /\ EndedByExit(0) => rc.result.kind = "ret" /\ rc.result.success
    /\ (RcDone /\ ~EndedByExit(0)) => rc.invocations = rc.retries + 1
    /\ SleepsLinear

\* C16: run_claude invokes the subprocess at most retries+1 times, returns
\* success on the first attempt that exits with code 0 without further
\* attempts, retries after a non-zero exit or a timeout, and sleeps
\* retry_backoff_sec x k after the k-th failed attempt, not after the final
\* one.
C16_RetrySchedule == RetrySchedule

\* the output of the attempt in hand has no line that is valid JSON but no
\* object
ScansCleanly == rc.cur.stdout \notin NonObjectKinds

\* the part of C16 that holds: the calls whose outputs scan cleanly
C16_ScheduleWhenScanned == ScansCleanly => RetrySchedule

\* two failed attempts, then success on the third: slept backoff, 2 x backoff
C16_WitnessThirdAttempt ==
    /\ EndedByExit(0) /\ rc.result.success
    /\ rc.invocations = 3 /\ rc.backoff = 2 /\ rc.sleeps = <<2, 4>>
    /\ rc.timeouts = {1}

\* how far a call has got: every step of run_claude raises it, and it is
\* bounded by the attempts allowed, so a call ends whatever the outcomes
RcProgress ==
    3 * rc.invocations
    + (CASE rc.phase \in {"ran", "timed_out"} -> 1
         [] rc.phase = "scanned" -> 2
         [] rc.phase = "loop" -> 3
         [] OTHER -> 3 * (rc.retries + 1 - rc.invocations) + 4)

\* the part of C16 that holds for every output: a call terminates
C16_Terminates ==
    [][RcProgress' > RcProgress /\ RcProgress' <= 3 * (rc.retries + 1) + 4]_vars

TerminalOutcome ==
    RcDone
    => /\ ExitedNonZero
          => /\ rc.result.kind = "ret" /\ ~rc.result.success
             /\ rc.result.error = ErrorText(rc.cur.stderr)
       /\ rc.cur.how = "timeout"
          => rc.result.kind = "raise" /\ rc.result.exc = "ClaudeTimeoutError"
       /\ (rc.result.kind = "ret" /\ rc.result.success) <=> EndedByExit(0)
       /\ rc.result.exc = "ClaudeTimeoutError" => rc.cur.how = "timeout"

\* C17: the terminal outcome is that of the final attempt: a non-zero exit
\* returns success=false with the error text, a timeout raises
\* ClaudeTimeoutError, success=true is returned iff some attempt exited
\* with code 0, and an earlier timeout is not surfaced when a later attempt
\* completes.
C17_TerminalOutcome == TerminalOutcome

\* the part of C17 that holds: the calls whose outputs scan cleanly
C17_OutcomeWhenScanned == ScansCleanly => TerminalOutcome

\* a timeout on the first attempt, a non-zero exit on the final one
C17_WitnessFailureAfterTimeout ==
    /\ ExitedNonZero /\ rc.timeouts = {1} /\ rc.invocations = 2
    /\ rc.result.kind = "ret" /\ ~rc.result.success
    /\ rc.result.error = "Claude CLI failed"

\* the stdout kinds whose result event carries a duration
MeteredKinds == {"result_metered", "assistant_then_result"}

MeteringHarmless ==
    /\ rc.result.kind = "raise" => rc.cur.how = "timeout"
    /\ (RcDone /\ rc.cur.how = "exit")
       => /\ rc.result.kind = "ret"
          /\ rc.result.success <=> rc.cur.returncode = 0
          /\ rc.cur.stdout \notin MeteredKinds
             => rc.result.duration_ms = Num("0") /\ rc.result.cost_usd = Num("0")

\* C18: the scan of the output for metering events never makes run_claude
\* fail: with no result event, a result event without the metering keys,
\* lines that are not JSON or lines that are valid JSON but no objects, it
\* returns the outcome dictated by the exit code, duration and cost
\* defaulting to 0.
C18_MeteringNeverFails == MeteringHarmless

\* the part of C18 that holds: no result event, a result event without the
\* keys, lines that are not JSON
C18_HarmlessOnObjects == ScansCleanly => MeteringHarmless

C18_WitnessDefaults ==
    /\ EndedByExit(0) /\ rc.cur.stdout = "not_json"
    /\ rc.result.success /\ rc.result.duration_ms = Num("0")

C18_WitnessMetered ==
    /\ EndedByExit(0) /\ rc.cur.stdout = "result_metered"
    /\ rc.result.duration_ms = Num("7") /\ rc.result.cost_usd = Num("3")

-----------------------------------------------------------------------------
(* The workspace lock: C19, C20, under LockSpec *)

\* the invocations that main's code takes to hold the lock: acquire_work_lock
\* has returned and the handle is not closed
InsideLock == {p \in Procs : lk.pc[p] \in {"locked", "working"}}

LockExclusive ==
    /\ Cardinality(InsideLock) <= 1
    /\ InsideLock = Holders

LockReleasedOnExit == \A p \in Procs : Exited(p) => p \notin Holders

\* C19: of any number of concurrently started invocations on one workspace
\* at most one holds the workspace lock at any time, and the holder
\* releases it on every exit path of main after acquisition (return,
\* exception, process exit).
C19_MutualExclusion == LockExclusive /\ LockReleasedOnExit

\* the parts of C19 that hold: the release on every exit path, and the
\* exclusion where the repository ignores the lock file
C19_ReleasedOnExit == LockReleasedOnExit

C19_ExclusiveWhenIgnored == lk.ignored => LockExclusive

\* one invocation holds the lock, the other has opened the same file and
\* waits in flock
C19_WitnessWaiting ==
    /\ lk.ignored
    /\ \E p, q \in Procs :
          /\ lk.pc[p] = "working" /\ lk.pc[q] = "opened"
          /\ lk.fd[p] = lk.fd[q] /\ lk.holder[lk.fd[q]] = p

\* the waiting invocation got the lock after the holder's exit
C19_WitnessGranted ==
    /\ lk.ignored
    /\ \E p, q \in Procs :
          /\ Exited(p) /\ lk.left[p] = 0 /\ lk.pc[q] = "locked"
          /\ lk.holder[1] = q /\ lk.made = 1

WritesUnderLock ==
    /\ Writers \subseteq Holders
    /\ Cardinality(Writers) <= 1

\* C20: every operation that mutates the shared workspace directory, the
\* creation of the tool clone included, is performed while the invoking
\* process holds the workspace lock, so no two concurrent invocations write
\* to the workspace at the same time.
C20_WritesUnderLock == WritesUnderLock

\* the part of C20 that holds: the work on the issues is done by a holder
\* of the lock, and by one invocation at a time while no clone is being
\* made and the repository ignores the lock file
C20_IssueWorkUnderLock ==
    /\ \A p \in Procs : lk.pc[p] = "working" => p \in Holders
    /\ (lk.ignored /\ lk.clone = "ready") => WritesUnderLock

C20_WitnessWorking ==
    /\ lk.ignored /\ lk.clone = "ready"
    /\ \E p, q \in Procs :
          /\ lk.pc[p] = "working" /\ lk.pc[q] = "opened" /\ p \in Holders

-----------------------------------------------------------------------------
(* The bracket scan: C30, under ExSpec *)

\* C30: _find_json_objects resumes exactly at the end of a decoded value
\* that lacks the required field (one character on after a failed decode),
\* so it returns the first decodable top-level object with the field that
\* does not lie inside an earlier decoded value, wherever the values that
\* precede it stand.
C30_ResumesAfterDecodedSpan ==
    ExDone("_find_json_objects")
    => ex.out.val = (IF ex.case.target = "match" THEN ObjC("5") ELSE JsonNone)

\* the part of C30 that holds: the values decoded before the object start
\* at index 0 of the text, or nothing before it decodes
C30_ResumesWhenFirstAtStart ==
    (ExDone("_find_json_objects")
     /\ (ex.case.pre = <<>> \/ ex.case.first \in {"none", "undecodable"}))
    => ex.out.val = (IF ex.case.target = "match" THEN ObjC("5") ELSE JsonNone)

\* {"g":1} {"c":5}: the second object was returned
C30_WitnessAtStart ==
    /\ ExDone("_find_json_objects")
    /\ ex.case.pre = <<>> /\ ex.case.first = "object_other"
    /\ ex.out.val = ObjC("5")

-----------------------------------------------------------------------------
(* The lock timeout: C21, under LockSpec *)

\* the invocations blocked in flock
Waiting == {p \in Procs : lk.pc[p] = "opened" /\ lk.holder[lk.fd[p]] # NoProc}

\* an invocation leaves flock only with the lock, or as its process exits
LeavesFlockWithLock ==
    \A p \in Procs :
        (lk.pc[p] = "opened" /\ lk.pc[p]' # "opened")
        => \/ lk.pc[p]' = "locked" /\ lk.holder[lk.fd[p]]' = p
           \/ lk.pc[p]' = "crashed"

WaitBounded ==
    \A p \in Waiting : lk.lock_timeout_sec > 0 => lk.waited[p] <= lk.lock_timeout_sec

\* C21: lock acquisition blocks indefinitely when the configured lock
\* timeout is 0 (the default), and with a timeout T > 0 it stops waiting
\* after at most T seconds while another invocation holds the lock.
C21_LockTimeout == []WaitBounded /\ [][lk.lock_timeout_sec = 0 => LeavesFlockWithLock]_vars

\* the part of C21 that holds: acquisition blocks until the lock is
\* granted, whatever the timeout
C21_BlocksUntilGranted == [][LeavesFlockWithLock]_vars

\* with the default timeout an invocation is still waiting after MaxWait
\* seconds
C21_WitnessStillWaiting ==
    \E p \in Waiting : lk.lock_timeout_sec = 0 /\ lk.waited[p] = MaxWait

-----------------------------------------------------------------------------
(* The batch loop of main *)

\* main got as far as the loop and has returned from it
BatchReturned == bt.pc = "returned" /\ bt.exc = ""

\* a run of process_issue is under way
InRun == bt.pc \in {"fetch", "prepare", "pipeline", "handle", "count"}

\* one run at a time, in the order given: the run under way is that of the
\* first issue not yet counted, and main returns with every issue counted
OneAtATime ==
    /\ bt.i \in 0..Len(bt.issues)
    /\ InRun => bt.i = Len(bt.done) + 1
    /\ ~InRun => bt.i = Len(bt.done)
    /\ BatchReturned => Len(bt.done) = Len(bt.issues)

\* a run an exception left is counted as a failure of its own issue
RaisedCountsAsFailure ==
    (bt.pc = "loop" /\ bt.i > 0 /\ Run.outcome = "raised")
    => /\ bt.results.failed # <<>>
       /\ bt.results.failed[Len(bt.results.failed)] = Issue

\* C22: the issues of a batch are processed one at a time in the order
\* given, each run finishing before the next begins; an exception raised in
\* one issue's run is caught at the loop, counted as a failure of that
\* issue, and the issues after it are still processed
C22_BatchSequential == OneAtATime /\ RaisedCountsAsFailure

C22_WitnessGoesOnAfterException ==
    /\ BatchReturned
    /\ bt.done = <<"raised", "success">>
    /\ bt.results.failed = <<bt.issues[1]>>
    /\ bt.results.success = <<bt.issues[2]>>

\* the issues whose runs ended with an outcome of `outcomes`, among the
\* first k runs, in the order of the batch
RECURSIVE Selected(_, _)
Selected(outcomes, k) ==
    IF k = 0 THEN <<>>
    ELSE IF bt.done[k] \in outcomes THEN Append(Selected(outcomes, k - 1), bt.issues[k])
    ELSE Selected(outcomes, k - 1)

\* each counted run is in the list of its outcome and in no other
CountedOnce ==
    /\ bt.results.success = Selected({"success"}, Len(bt.done))
    /\ bt.results.skipped = Selected({"skipped"}, Len(bt.done))
    /\ bt.results.failed = Selected({"failed", "raised"}, Len(bt.done))

\* a failed or blocked pipeline is a failed run
BlockedIsFailed ==
    (bt.pc = "count" /\ Run.status \in {"failed", "blocked"})
    => Run.outcome \in {"failed", "raised"}

ExitCodeZeroIffNoFailure ==
    BatchReturned
    => (bt.code = 0 <=> \A k \in 1..Len(bt.done) : bt.done[k] \notin {"failed", "raised"})

\* C23: after the loop every processed issue is in exactly one of the
\* lists success, skipped and failed, a blocked run, a failed run and an
\* exception counting as failed, and main's exit code is 0 exactly when no
\* issue was counted as failed
C23_CountedOnceAndExitCode ==
    CountedOnce /\ BlockedIsFailed /\ ExitCodeZeroIffNoFailure

C23_WitnessBlockedAndSkipped ==
    /\ BatchReturned
    /\ bt.done = <<"skipped", "failed">>
    /\ Run.status = "blocked"
    /\ bt.code = 1

C23_WitnessAllPass ==
    /\ BatchReturned
    /\ bt.done = <<"success", "skipped">>
    /\ bt.code = 0

-----------------------------------------------------------------------------
(* process_issue: comments, cleanup and the reset of the workspace *)

\* process_issue has returned a status
RunReturned == bt.pc = "count" /\ Run.outcome \in {"success", "skipped", "failed"}

\* process_issue has returned, or an exception has left it
RunLeft == bt.pc = "count"

\* C24: every terminal outcome of a run has a comment posted to the issue
\* before process_issue returns: it never returns without having attempted
\* add_issue_comment, not after a failed push or pull-request creation, a
\* git error in the branch preparation or a failed fetch of the issue
C24_CommentOnEveryOutcome == RunReturned => Run.comments >= 1

\* a run whose pipeline ended, and that did not fail publishing its
\* success, has attempted the comment
C24_CommentAfterPipeline ==
    (RunReturned /\ Run.status # "none"
              /\ ~(Run.status = "success" /\ Run.outcome = "failed"))
    => Run.comments >= 1

C24_WitnessBlockedCommented ==
    RunReturned /\ Run.status = "blocked" /\ Run.comments = 1

\* C25: a GitError in the branch preparation, or in the commit or push of
\* the success handler, is answered by cleanup_git_state before
\* process_issue returns failed, and the next issue of the batch is still
\* processed
C25_CleanupOnGitError ==
    /\ (RunLeft /\ Run.git_error) => (Run.outcome = "failed" /\ Run.cleanups >= 1)
    /\ BatchReturned => Len(bt.done) = Len(bt.issues)

\* a GitError fails its own issue only, and the loop goes on
C25_GitErrorFailsItsIssueOnly ==
    /\ (RunLeft /\ Run.git_error) => Run.outcome = "failed"
    /\ BatchReturned => Len(bt.done) = Len(bt.issues)

\* the workspace at the start of the pipeline for issue n: the feature
\* branch checked out, holding no commit of any run, no branch of that name
\* on origin, and nothing uncommitted in the worktree
FreshBranch(ws, n) ==
    /\ ws.cur = n
    /\ ws.local[n] = Branch({})
    /\ ~ws.remote[n].exists

FreshWorktree(ws) == ws.dirty = {}

NoOpenPr(ws, n) == ws.pr[n] = {}

\* C26: a run for an issue number that was run before starts its pipeline
\* on a feature branch derived from this run only: the open pull request of
\* the branch is closed, the local and the remote branch are deleted and
\* the branch is made anew from origin/<base> after a hard reset, so that
\* no commit and no uncommitted change of the earlier run is left
C26_SecondRunOnly ==
    bt.pc = "pipeline"
    => /\ FreshBranch(bt.ws, Issue)
       /\ FreshWorktree(bt.ws)
       /\ NoOpenPr(bt.ws, Issue)

\* the branches are those of this run whenever the pipeline starts; the
\* pull request is closed when the tracker answers the listing, and the
\* worktree is clean when the unchecked discard commands work
C26_BranchFromSecondRun ==
    /\ bt.pc = "pipeline" => FreshBranch(bt.ws, Issue)
    /\ bt.pc = "prepare"
       => \A e \in PrepareEnvs :
            Prepared(bt.ws, Issue, e).exc = ""
            => /\ e.listed => NoOpenPr(Prepared(bt.ws, Issue, e).ws, Issue)
               /\ e.quiet => FreshWorktree(Prepared(bt.ws, Issue, e).ws)

C26_WitnessSecondRun ==
    /\ bt.pc = "pipeline"
    /\ bt.issues = <<1, 1>>
    /\ bt.done = <<"success">>
    /\ FreshBranch(bt.ws, 1) /\ FreshWorktree(bt.ws) /\ NoOpenPr(bt.ws, 1)

\* the pipeline of the run ended skipped, failed or blocked, or an
\* exception left process_issue after the feature branch was created
NeedsCleanup ==
    \/ Run.status \in {"skipped", "failed", "blocked"}
    \/ Run.created /\ Run.outcome = "raised"

\* cleanup_git_state, its git commands working, leaves the base branch
\* checked out, nothing uncommitted and no feature branch
CleanupEffect ==
    InRun => LET ws == CleanupGitState(bt.ws, Issue, {})
             IN  ws.cur = 0 /\ ws.dirty = {} /\ ~ws.local[Issue].exists

C28_WitnessRaisedCleaned ==
    RunLeft /\ Run.status = "success" /\ Run.outcome = "raised" /\ Run.cleanups = 1

\* C29: when Config.load fails with a ConfigError, main reports the error
\* and returns 1 through its handler, before the tool clone is made, the
\* lock is taken or an issue is processed
C29_ConfigErrorHandled ==
    bt.exc = "ConfigError"
    => /\ bt.pc = "returned" /\ bt.code = 1 /\ bt.reported
       /\ ~bt.cloned /\ ~bt.locked /\ bt.i = 0

\* a ConfigError ends main before the clone, the lock and the first issue
C29_ConfigErrorBeforeAnyRun ==
    bt.exc = "ConfigError"
    => /\ bt.pc \in {"returned", "uncaught"}
       /\ ~bt.cloned /\ ~bt.locked /\ bt.i = 0

C29_WitnessUncaught == bt.pc = "uncaught" /\ bt.exc = "ConfigError"

-----------------------------------------------------------------------------
(* The state file across a crash of save_state *)

\* what a reader of the state file finds is a complete snapshot: the one
\* from before the call (or no file, if there was none) or the new one
CompleteSnapshot == sv.file \in {sv.old, File(sv.new)}

\* C27: a crash at any point during save_state never leaves a half-written
\* (empty, truncated or partial) snapshot: a reader of the state file finds
\* either the complete previous snapshot or the complete new one
C27_NoHalfWrittenSnapshot ==
    sv.pc \in {"crashed", "raised"} => CompleteSnapshot

\* save_state that returns has written the complete new snapshot
C27_CompleteWhenReturned == sv.pc = "closed" => sv.file = File(sv.new)

C27_WitnessReturned ==
    sv.pc = "closed" /\ sv.old.exists /\ sv.old # File(sv.new)

-----------------------------------------------------------------------------
(* The fallback on the raw output: C31, under ExSpec *)

\* the search of lines 235-246 finds nothing in any of the texts
NoSegmentMatches ==
    \A j \in 1..Len(ex.case.segs) :
        SearchText(SegmentText(ex.case.segs[j]), ex.field) = JsonNone

\* the output is an event stream: each of its texts is collected
SegmentsCollected ==
    /\ ExDone("extract_json_from_output")
    /\ ex.case.format = "stream"
    /\ ex.case.junk \notin MalformedJunk

\* C31: the fallback on the raw output (the escapes undone, then the
\* fenced-block scan and the bracket scan of the whole output) runs only
\* when the event parsing collected no assistant text; with a text
\* collected and no match in any of them the result is None, and no object
\* is taken from the raw event stream
C31_FallbackOnlyWithoutSegments ==
    (SegmentsCollected /\ NoSegmentMatches) => ex.out = ExtractReturns(JsonNone)

\* with no text collected the result is that of the search of the raw
\* output, and a match in a collected text is returned
C31_FallbackWithoutSegments ==
    /\ (ExDone("extract_json_from_output") /\ ex.case.format = "plain"
        /\ ex.case.junk \notin MalformedJunk)
       => ex.out = ExtractReturns(SearchText(RawText(ex.text), ex.field))
    /\ (SegmentsCollected /\ ~NoSegmentMatches) => ex.out.val # JsonNone

C31_WitnessFromEventStream ==
    /\ SegmentsCollected
    /\ ex.case.segs = <<"prose">>
    /\ ex.case.junk = "field_event"
    /\ ex.out.kind = "ret"
    /\ IsDict(ex.out.val)
    /\ DictGet(ex.out.val, FieldC, JsonNone) = Num("9")

-----------------------------------------------------------------------------
(* AgentState.confidence: src/agents/base.py 159-163, src/models.py 47-56 *)

\* the hundredths that lie in [0.0, 1.0]
UnitInterval == 0..100

\* C32: the confidence of every AgentState lies in [0.0, 1.0], whatever the
\* agent's output contained.
C32_ConfidenceInUnitInterval ==
    \A a \in AgentNames :
        states[a].status # "absent" => states[a].confidence \in UnitInterval

\* the part of C32 that holds: the confidence is 0 until run() has
\* returned, and from then on it is the payload's confidence key (0 without
\* the key), copied as reported.
C32_ConfidenceFromPayload ==
    \A a \in AgentNames :
        /\ states[a].status \in {"absent", "pending", "running"}
            => states[a].confidence = 0
        /\ states[a].confidence = Reported(a)

\* triage has returned on an output that reports a confidence of 1.5
C32_WitnessAboveOne ==
    /\ states["triage"].status = "success"
    /\ lastIn.hasConf /\ lastIn.conf = 150
    /\ states["triage"].confidence = 150

-----------------------------------------------------------------------------
(* ReviewAgent.run: src/agents/review.py 46-96 *)

\* execute() of a review has returned, and its run() was entered with the
\* fix completed and the prompt template present
ReviewReturned ==
    /\ ExecuteReturned /\ stage = "review"
    /\ lastIn.prompt = "ok"

\* C33: a review succeeds only on an extracted object whose top-level
\* approved is the boolean true; it fails when no object holding verdict was
\* extracted after the stricter-prompt retry, and it is skipped with
\* approved=false for every other value of approved and for its absence.
C33_ApprovesOnlyBooleanTrue ==
    ReviewReturned =>
        /\ states["review"].status = "success"
            <=> (Extracted /\ lastIn.approved = "true")
        /\ (lastIn.proc = "ok" /\ lastIn.ext = "notfound"
            /\ lastIn.proc2 = "ok" /\ lastIn.ext2 = "notfound")
            => states["review"].status = "failed"
        /\ (Extracted /\ lastIn.approved # "true")
            => /\ states["review"].status = "skipped"
               /\ ~states["review"].data.approved

\* the part of C33 that holds: no approval without an extracted object,
\* failed when the retry found no object either, success on the boolean
\* true, and skipped with approved=false on false and on an absent key.
C33_NoApprovalWithoutResult ==
    ReviewReturned =>
        /\ states["review"].status = "success" => Extracted
        /\ (lastIn.proc = "ok" /\ lastIn.ext = "notfound"
            /\ lastIn.proc2 = "ok" /\ lastIn.ext2 = "notfound")
            => states["review"].status = "failed"
        /\ (Extracted /\ lastIn.approved = "true")
            => states["review"].status = "success"
        /\ (Extracted /\ lastIn.approved \in {"false", "absent"})
            => /\ states["review"].status = "skipped"
               /\ ~states["review"].data.approved

\* a review whose approved is a non-empty string has been taken as approval
C33_WitnessStringApproves ==
    /\ ReviewReturned /\ Extracted /\ lastIn.approved = "str"
    /\ states["review"].status = "success"
    /\ states["review"].data.approved

-----------------------------------------------------------------------------
(* TriageAgent.run on an unusable classification: src/agents/triage.py 40-94 *)

\* execute() of the triage has returned and the process run had succeeded
TriageReturned ==
    /\ ExecuteReturned /\ stage = "triage"
    /\ lastIn.prompt = "ok" /\ lastIn.proc = "ok"

\* the extraction found no object holding classification
TriageNotFound == lastIn.ext = "notfound"

\* the extracted object's top-level classification is none of the six labels
UnknownLabel ==
    lastIn.ext = "found" /\ lastIn.hasCls /\ lastIn.cls \notin Classification

\* the extracted object holds classification only below its top level
NestedOnly == lastIn.ext = "found" /\ ~lastIn.hasCls

C34_WitnessUnknownLabel ==
    /\ TriageReturned /\ UnknownLabel
    /\ lastIn.conf = 100
    /\ states["triage"].data.cls = "NEEDS_CLARIFICATION"
    /\ states["triage"].status = "skipped"

-----------------------------------------------------------------------------
(* Agent.run_claude_with_json: src/agents/base.py, lines 100-143;
   specification JsonSpec *)

\* how one subprocess invocation of run_claude ends: exit code 0, another
\* exit code, TimeoutExpired, or an output whose metering scan raises
InvokeOutcomes == {"exit0", "exit1", "timeout", "scan_error"}

\* run_claude after its attempt-th invocation (claude_runner.py 52-108):
\* it invokes again, returns a ClaudeResult, or raises
RunClaudeEnds(outcome, attempt, retries) ==
    CASE outcome = "scan_error" -> "error"
      [] outcome = "exit0"      -> "success"
      [] attempt <= retries     -> "again"
      [] outcome = "exit1"      -> "failure"
      [] OTHER                  -> "timeout"

\* how extract_json_from_output ends on the output of a successful run
Extractions == {"found", "notfound", "raises"}

NoJsonResult == [kind |-> "none", call |-> 0, success |-> FALSE, data |-> FALSE, exc |-> ""]

\* return result, data: the ClaudeResult of the call-th run_claude call
JsonReturns(call, success, data) ==
    [kind |-> "ret", call |-> call, success |-> success, data |-> data, exc |-> ""]

JsonRaises(call, exc) ==
    [kind |-> "raise", call |-> call, success |-> FALSE, data |-> FALSE, exc |-> exc]

\* a retry decision that also retries after a failed first run
NeedsRetryAfterFailure(ended, extraction) ==
    ended = "failure" \/ (ended = "success" /\ extraction = "notfound")

\* lines 115-121: the stricter prompt is issued when the first run
\* succeeded and the extraction gave nothing
NeedsRetry(ended, extraction) == ended = "success" /\ extraction = "notfound"

JsonInit ==
    /\ Parked
    /\ ex = ExOff
    /\ rc = RcOff
    /\ lk = LkOff
    /\ bt = BtOff
    /\ sv = SvOff
    /\ gh = GhOff
    /\ sn = SnOff
    /\ \E retries \in 0..MaxRetries :
          rj = [phase |-> "on", pc |-> "start", retries |-> retries,
                call |-> 0, attempt |-> 0, invocations |-> <<>>,
                ended |-> <<>>, extracted |-> <<>>, retry_prompts |-> 0,
                result |-> NoJsonResult]

\* lines 109-114 and 131-136: a call of run_claude begins
RjRunClaude ==
    /\ rj.phase = "on" /\ rj.pc \in {"start", "retry"}
    /\ rj' = [rj EXCEPT !.pc = "running", !.call = @ + 1, !.attempt = 0,
                        !.invocations = Append(@, 0)]
    /\ UNCHANGED <<pvars, ex, rc, lk, bt, sv, gh, sn>>

\* claude_runner.py 52-108: one subprocess invocation of the current call
RjInvoke ==
    /\ rj.phase = "on" /\ rj.pc = "running"
    /\ \E outcome \in InvokeOutcomes :
          LET attempt == rj.attempt + 1
              ended == RunClaudeEnds(outcome, attempt, rj.retries)
          IN  rj' = [rj EXCEPT !.attempt = attempt,
                               !.invocations[rj.call] = @ + 1,
                               !.ended = IF ended = "again" THEN @
                                         ELSE Append(@, ended),
                               !.pc = IF ended = "again" THEN "running"
                                      ELSE "returned"]
    /\ UNCHANGED <<pvars, ex, rc, lk, bt, sv, gh, sn>>

\* run_claude raised: no handler in run_claude_with_json but the re-raising
\* one of lines 137-138, so the exception leaves it
RjPropagate ==
    /\ rj.phase = "on" /\ rj.pc = "returned"
    /\ rj.ended[rj.call] \in {"timeout", "error"}
    /\ rj' = [rj EXCEPT !.pc = "done",
                        !.result = JsonRaises(rj.call,
                                       IF rj.ended[rj.call] = "timeout"
                                       THEN "ClaudeTimeoutError"
                                       ELSE "AttributeError")]
    /\ UNCHANGED <<pvars, ex, rc, lk, bt, sv, gh, sn>>

\* lines 115-116 and 140-141: if not result.success: return result, None
RjReturnFailed ==
    /\ rj.phase = "on" /\ rj.pc = "returned"
    /\ rj.ended[rj.call] = "failure"
    /\ rj' = [rj EXCEPT !.pc = IF NeedsRetry("failure", "none") /\ rj.call = 1
                               THEN "retry" ELSE "done",
                        !.retry_prompts = IF NeedsRetry("failure", "none") /\ rj.call = 1
                                          THEN @ + 1 ELSE @,
                        !.result = IF NeedsRetry("failure", "none") /\ rj.call = 1
                                   THEN @ ELSE JsonReturns(rj.call, FALSE, FALSE)]
    /\ UNCHANGED <<pvars, ex, rc, lk, bt, sv, gh, sn>>

\* lines 117-127: the extraction on the first run's output; the retry
\* prompt is written when it found nothing
RjExtractFirst ==
    /\ rj.phase = "on" /\ rj.pc = "returned" /\ rj.call = 1
    /\ rj.ended[1] = "success"
    /\ \E extraction \in Extractions :
          rj' = [rj EXCEPT !.extracted = Append(@, extraction),
                           !.pc = IF NeedsRetry("success", extraction)
                                  THEN "retry" ELSE "done",
                           !.retry_prompts = IF NeedsRetry("success", extraction)
                                             THEN @ + 1 ELSE @,
                           !.result =
                               CASE extraction = "found" -> JsonReturns(1, TRUE, TRUE)
                                 [] extraction = "raises" -> JsonRaises(1, "AttributeError")
                                 [] OTHER -> @]
    /\ UNCHANGED <<pvars, ex, rc, lk, bt, sv, gh, sn>>

\* lines 142-143: the extraction on the retry's output is returned as it is
RjExtractRetry ==
    /\ rj.phase = "on" /\ rj.pc = "returned" /\ rj.call = 2
    /\ rj.ended[2] = "success"
    /\ \E extraction \in Extractions :
          rj' = [rj EXCEPT !.extracted = Append(@, extraction),
                           !.pc = "done",
                           !.result =
                               IF extraction = "raises"
                               THEN JsonRaises(2, "AttributeError")
                               ELSE JsonReturns(2, TRUE, extraction = "found")]
    /\ UNCHANGED <<pvars, ex, rc, lk, bt, sv, gh, sn>>

JsonNext ==
    \/ RjRunClaude
    \/ RjInvoke
    \/ RjPropagate
    \/ RjReturnFailed
    \/ RjExtractFirst
    \/ RjExtractRetry

JsonSpec == JsonInit /\ [][JsonNext]_vars

-----------------------------------------------------------------------------
(* Properties of run_claude_with_json, under JsonSpec *)

JsonDone == rj.pc = "done"

RECURSIVE SumSeq(_)
SumSeq(s) == IF s = <<>> THEN 0 ELSE Head(s) + SumSeq(Tail(s))

\* some call of run_claude raised ClaudeTimeoutError
SomeCallTimedOut == \E k \in 1..Len(rj.ended) : rj.ended[k] = "timeout"

\* C35: the stricter-prompt retry is issued at most once, and only when the
\* first run_claude call succeeded and the extraction found nothing; after
\* a failed or timed-out first run there is no retry; one call makes at most
\* 2 run_claude calls and at most 2 x (retries + 1) subprocess invocations;
\* a timeout of either call leaves as ClaudeTimeoutError.
C35_RetryAtMostOnce ==
    /\ rj.retry_prompts <= 1
    /\ rj.retry_prompts = 1
        => (rj.ended[1] = "success" /\ rj.extracted[1] = "notfound")
    /\ (rj.ended # <<>> /\ rj.ended[1] \in {"failure", "timeout"})
        => (rj.retry_prompts = 0 /\ rj.call = 1)
    /\ rj.call <= 2
    /\ \A k \in 1..Len(rj.invocations) : rj.invocations[k] <= rj.retries + 1
    /\ SumSeq(rj.invocations) <= 2 * (rj.retries + 1)
    /\ (JsonDone /\ SomeCallTimedOut)
        => rj.result = JsonRaises(rj.call, "ClaudeTimeoutError")

\* the retry was issued and both calls used every attempt
C35_WitnessRetriedToTheEnd ==
    /\ JsonDone /\ rj.retries = MaxRetries
    /\ rj.retry_prompts = 1 /\ rj.call = 2
    /\ SumSeq(rj.invocations) = 2 * (MaxRetries + 1)
    /\ rj.result = JsonRaises(2, "ClaudeTimeoutError")

\* the first call timed out and nothing was retried
C35_WitnessFirstTimedOut ==
    /\ JsonDone /\ rj.call = 1 /\ rj.retry_prompts = 0
    /\ rj.result = JsonRaises(1, "ClaudeTimeoutError")

-----------------------------------------------------------------------------
(* handle_success: src/run.py 365-440 *)

\* handle_success has returned, having looked for commits to push
LookedForCommits ==
    /\ pc = "done" /\ handler = "handle_success"
    /\ effects.has_unpushed # "unasked"

\* the branch has unpushed commits and a non-empty diff against the base
Publishable == effects.has_unpushed = "yes" /\ effects.has_diff = "yes"

\* C36: in handle_success create_pr is called only after the push
\* succeeded, and push is called only if the branch has unpushed commits and
\* a non-empty diff against origin/<base>; otherwise nothing is pushed, no
\* pull request is created, and the outcome returned is skipped.
C36_PublishOnlyWithCommitsAndDiff ==
    /\ effects.create_pr > 0 => effects.pushed
    /\ effects.push > 0 => Publishable
    /\ (LookedForCommits /\ ~Publishable)
        => /\ effects.push = 0 /\ effects.create_pr = 0
           /\ result = "skipped"

\* the part of C36 that holds: the order and the guard of push and
\* create_pr, and skipped as the outcome when the comment on the issue
\* went through.
C36_PublishGuardAndOrder ==
    /\ effects.create_pr > 0 => effects.pushed
    /\ effects.push > 0 => Publishable
    /\ (LookedForCommits /\ ~Publishable)
        => /\ effects.push = 0 /\ effects.create_pr = 0
           /\ effects.comments = 1
           /\ result = IF effects.comment = "ok" THEN "skipped" ELSE "failed"

\* nothing was to be pushed, the comment failed, and the run is failed
C36_WitnessFailedWithoutCommits ==
    /\ LookedForCommits /\ effects.has_unpushed = "no"
    /\ effects.comment = "github_error"
    /\ effects.push = 0 /\ effects.create_pr = 0
    /\ result = "failed"

-----------------------------------------------------------------------------
(* The metrics log and the batch summary: src/run.py 112-119, 164-178,
   258-280, under BatchSpec *)

\* the summary list for a status written to metrics.jsonl
MetricsAs(status) == IF status = "blocked" THEN "failed" ELSE status

\* the current run wrote its line to metrics.jsonl and is being counted
RunRecorded == bt.pc = "count" /\ Run.metrics # "none"

\* C37: the status a run writes to the metrics log equals the outcome under
\* which its issue is counted in the batch summary (failed and blocked as
\* failed): no run is recorded as success and counted as skipped or failed.
C37_MetricsMatchSummary ==
    RunRecorded => MetricsAs(Run.metrics) = ListFor(Run.outcome)

\* the part of C37 that holds: the line written is the pipeline's status,
\* a run recorded as skipped is counted as skipped or failed-by-exception,
\* a run recorded as failed or blocked is counted as failed, and a run
\* counted as success was recorded as success.
C37_MetricsArePipelineStatus ==
    RunRecorded =>
        /\ Run.metrics = Run.status
        /\ Run.metrics \in {"failed", "blocked"} => ListFor(Run.outcome) = "failed"
        /\ Run.metrics = "skipped" => ListFor(Run.outcome) \in {"skipped", "failed"}
        /\ ListFor(Run.outcome) = "success" => Run.metrics = "success"

\* a run recorded as success is counted as skipped
C37_WitnessSuccessCountedSkipped ==
    /\ RunRecorded /\ Run.metrics = "success"
    /\ Run.outcome = "skipped"

-----------------------------------------------------------------------------
(* GitHubClient._run_gh: src/github_client.py, lines 30-52;
   specification GhSpec *)

\* the tokens of line 43
RetryTokens ==
    {<<"r", "a", "t", "e", " ", "l", "i", "m", "i", "t">>,
     <<"t", "i", "m", "e", "o", "u", "t">>,
     <<"t", "e", "m", "p", "o", "r", "a", "r", "i", "l", "y">>,
     <<"5", "0", "3">>,
     <<"5", "0", "2">>,
     <<"n", "e", "t", "w", "o", "r", "k">>}

\* what gh may write to stderr: nothing, blank space, a fatal error, and
\* retryable ones in either case of letters
StderrTexts ==
    {<<>>,
     <<" ", NL>>,
     <<"H", "T", "T", "P", " ", "4", "0", "4", NL>>,
     <<"H", "T", "T", "P", " ", "5", "0", "3", NL>>,
     <<"R", "a", "t", "e", " ", "L", "i", "m", "i", "t">>,
     <<"t", "i", "m", "e", "o", "u", "t">>}

Uppers ==
    <<"A", "B", "C", "D", "E", "F", "G", "H", "I", "J", "K", "L", "M",
      "N", "O", "P", "Q", "R", "S", "T", "U", "V", "W", "X", "Y", "Z">>

Lowers ==
    <<"a", "b", "c", "d", "e", "f", "g", "h", "i", "j", "k", "l", "m",
      "n", "o", "p", "q", "r", "s", "t", "u", "v", "w", "x", "y", "z">>

\* str.lower(), character by character
LowerChar(ch) ==
    IF \E k \in 1..Len(Uppers) : Uppers[k] = ch
    THEN Lowers[CHOOSE k \in 1..Len(Uppers) : Uppers[k] = ch]
    ELSE ch

Lower(text) == [j \in 1..Len(text) |-> LowerChar(text[j])]

\* line 43: any(token in last_error.lower() for token in (...))
Retryable(last_error) ==
    \E token \in RetryTokens : Find(Lower(last_error), token, 0) # -1

NoGhResult == [kind |-> "none", error |-> <<>>]

GhReturns == [kind |-> "ret", error |-> <<>>]

\* raise GitHubError(f"gh command failed: {last_error}")
GhRaises(last_error) == [kind |-> "raise", error |-> last_error]

GhInit ==
    /\ Parked
    /\ ex = ExOff
    /\ rc = RcOff
    /\ lk = LkOff
    /\ bt = BtOff
    /\ sv = SvOff
    /\ rj = RjOff
    /\ sn = SnOff
    /\ \E check \in BOOLEAN, retries \in 0..MaxRetries :
          gh = [phase |-> "on", pc |-> "loop", check |-> check,
                retries |-> retries, attempt |-> 0, returncode |-> 0,
                last_error |-> <<>>, exits |-> <<>>, errors |-> <<>>,
                sleeps |-> <<>>, result |-> NoGhResult]

\* lines 34-37: the next attempt
GhRun ==
    /\ gh.phase = "on" /\ gh.pc = "loop"
    /\ gh.attempt <= gh.retries
    /\ \E returncode \in {0, 1}, stderr \in StderrTexts :
          gh' = [gh EXCEPT !.attempt = @ + 1, !.returncode = returncode,
                           !.exits = Append(@, returncode),
                           !.errors = Append(@, stderr), !.pc = "ran"]
    /\ UNCHANGED <<pvars, ex, rc, lk, bt, sv, rj, sn>>

\* lines 38-39
GhReturnStdout ==
    /\ gh.phase = "on" /\ gh.pc = "ran"
    /\ gh.returncode = 0
    /\ gh' = [gh EXCEPT !.pc = "done", !.result = GhReturns]
    /\ UNCHANGED <<pvars, ex, rc, lk, bt, sv, rj, sn>>

\* lines 40-46: the loop is left when the call is unchecked, the attempts
\* are used up, or the error is not retryable
GhBreak ==
    /\ gh.phase = "on" /\ gh.pc = "ran"
    /\ gh.returncode # 0
    /\ LET last_error == Strip(gh.errors[gh.attempt])
       IN  /\ \/ ~gh.check
              \/ gh.attempt > gh.retries
              \/ ~Retryable(last_error)
           /\ gh' = [gh EXCEPT !.last_error = last_error, !.pc = "after"]
    /\ UNCHANGED <<pvars, ex, rc, lk, bt, sv, rj, sn>>

\* lines 40-47: time.sleep(attempt), then the next attempt
GhSleep ==
    /\ gh.phase = "on" /\ gh.pc = "ran"
    /\ gh.returncode # 0
    /\ LET last_error == Strip(gh.errors[gh.attempt])
       IN  /\ gh.check
           /\ gh.attempt <= gh.retries
           /\ Retryable(last_error)
           /\ gh' = [gh EXCEPT !.last_error = last_error, !.pc = "loop",
                               !.sleeps = Append(@, gh.attempt)]
    /\ UNCHANGED <<pvars, ex, rc, lk, bt, sv, rj, sn>>

\* lines 49-50: if check and last_error: raise GitHubError
GhRaise ==
    /\ gh.phase = "on" /\ gh.pc = "after"
    /\ gh.check /\ gh.last_error # <<>>
    /\ gh' = [gh EXCEPT !.pc = "done", !.result = GhRaises(gh.last_error)]
    /\ UNCHANGED <<pvars, ex, rc, lk, bt, sv, rj, sn>>

\* line 52: return result.stdout.strip()
GhReturnAfterFailure ==
    /\ gh.phase = "on" /\ gh.pc = "after"
    /\ ~(gh.check /\ gh.last_error # <<>>)
    /\ gh' = [gh EXCEPT !.pc = "done", !.result = GhReturns]
    /\ UNCHANGED <<pvars, ex, rc, lk, bt, sv, rj, sn>>

GhNext ==
    \/ GhRun
    \/ GhReturnStdout
    \/ GhBreak
    \/ GhSleep
    \/ GhRaise
    \/ GhReturnAfterFailure

GhSpec == GhInit /\ [][GhNext]_vars

-----------------------------------------------------------------------------
(* Properties of _run_gh, under GhSpec *)

\* a checked call has ended
CheckedDone == gh.pc = "done" /\ gh.check

SomeExitZero == \E k \in 1..Len(gh.exits) : gh.exits[k] = 0

\* the attempts made are as many as the error allows: one for an error that
\* is not retryable, at most retries + 1 otherwise
AttemptsAsAllowed ==
    /\ gh.attempt <= gh.retries + 1
    /\ \A k \in 1..Len(gh.errors) :
          (gh.exits[k] # 0 /\ ~Retryable(Strip(gh.errors[k]))) => gh.attempt = k

\* C38: with check=True _run_gh returns normally only if some attempt
\* exited with code 0; when every attempt exits non-zero it raises
\* GitHubError, after exactly 1 attempt for an error that is not retryable
\* and at most retries + 1 attempts for retryable ones, whatever stderr
\* holds, empty stderr included.
C38_ChecksEveryFailure ==
    CheckedDone =>
        /\ gh.result.kind = "ret" => SomeExitZero
        /\ ~SomeExitZero => gh.result.kind = "raise"
        /\ AttemptsAsAllowed

\* the part of C38 that holds: a failure whose stderr is not blank raises,
\* a raise means that no attempt exited 0, and the attempts are 1 for an
\* error that is not retryable and at most retries + 1 otherwise.
C38_RaisesOnReportedFailure ==
    CheckedDone =>
        /\ (~SomeExitZero /\ Strip(gh.errors[gh.attempt]) # <<>>)
            => gh.result = GhRaises(Strip(gh.errors[gh.attempt]))
        /\ gh.result.kind = "raise" => ~SomeExitZero
        /\ gh.result.kind = "ret"
            => (SomeExitZero \/ Strip(gh.errors[gh.attempt]) = <<>>)
        /\ AttemptsAsAllowed
        /\ Len(gh.sleeps) = gh.attempt - 1

\* a checked call whose only attempt failed with nothing on stderr has
\* returned normally
C38_WitnessSilentFailure ==
    /\ CheckedDone /\ gh.exits = <<1>> /\ gh.errors = <<<<>>>>
    /\ gh.result = GhReturns

-----------------------------------------------------------------------------
(* sanitize_for_prompt and sanitize_label: src/sanitize.py; specification
   SanitizeSpec.  Texts are sequences of characters, as in the extractor. *)

\* the elements of the injection patterns: a literal, \s+ or \s*
\* (least: 1 or 0), an alternation tried in order, an optional group
Lit(s) == [t |-> "lit", s |-> s, least |-> 0, opts |-> <<>>, items |-> <<>>]

Ws(least) == [t |-> "ws", s |-> <<>>, least |-> least, opts |-> <<>>, items |-> <<>>]

Alt(opts) == [t |-> "alt", s |-> <<>>, least |-> 0, opts |-> opts, items |-> <<>>]

Opt(items) == [t |-> "opt", s |-> <<>>, least |-> 0, opts |-> <<>>, items |-> items]

\* the replacement of the six filtering patterns
Filtered == <<"[", "F", "I", "L", "T", "E", "R", "E", "D", "]">>

\* lines 31-46: injection_patterns, each with its replacement; the letters
\* are matched in lower case ((?i))
InjectionPatterns ==
    <<[pattern |-> <<Lit(<<"i", "g", "n", "o", "r", "e">>),
                    Ws(1),
                    Opt(<<Lit(<<"a", "l", "l">>), Ws(1)>>),
                    Alt(<<<<"p", "r", "e", "v", "i", "o", "u", "s">>, <<"p", "r", "i", "o", "r">>, <<"a", "b", "o", "v", "e">>>>),
                    Ws(1),
                    Alt(<<<<"i", "n", "s", "t", "r", "u", "c", "t", "i", "o", "n", "s">>, <<"i", "n", "s", "t", "r", "u", "c", "t", "i", "o", "n">>, <<"p", "r", "o", "m", "p", "t", "s">>, <<"p", "r", "o", "m", "p", "t">>, <<"r", "u", "l", "e", "s">>, <<"r", "u", "l", "e">>>>)>>,
       replacement |-> Filtered],
      [pattern |-> <<Lit(<<"d", "i", "s", "r", "e", "g", "a", "r", "d">>),
                    Ws(1),
                    Opt(<<Lit(<<"a", "l", "l">>), Ws(1)>>),
                    Alt(<<<<"p", "r", "e", "v", "i", "o", "u", "s">>, <<"p", "r", "i", "o", "r">>, <<"a", "b", "o", "v", "e">>>>)>>,
       replacement |-> Filtered],
      [pattern |-> <<Lit(<<"f", "o", "r", "g", "e", "t">>),
                    Ws(1),
                    Alt(<<<<"e", "v", "e", "r", "y", "t", "h", "i", "n", "g">>, <<"a", "l", "l">>>>),
                    Ws(1),
                    Alt(<<<<"a", "b", "o", "v", "e">>, <<"b", "e", "f", "o", "r", "e">>>>)>>,
       replacement |-> Filtered],
      [pattern |-> <<Lit(<<"n", "e", "w">>),
                    Ws(1),
                    Alt(<<<<"i", "n", "s", "t", "r", "u", "c", "t", "i", "o", "n", "s">>, <<"i", "n", "s", "t", "r", "u", "c", "t", "i", "o", "n">>>>),
                    Lit(<<":">>)>>,
       replacement |-> Filtered],
      [pattern |-> <<Lit(<<"s", "y", "s", "t", "e", "m">>),
                    Ws(0),
                    Lit(<<"p", "r", "o", "m", "p", "t", ":">>)>>,
       replacement |-> Filtered],
      [pattern |-> <<Lit(<<"o", "v", "e", "r", "r", "i", "d", "e">>),
                    Ws(0),
                    Lit(<<":">>)>>,
       replacement |-> Filtered],
      [pattern |-> <<Lit(<<"y", "o", "u">>),
                    Ws(1),
                    Lit(<<"a", "r", "e">>),
                    Ws(1),
                    Lit(<<"n", "o", "w">>),
                    Ws(1),
                    Alt(<<<<"a">>, <<"a", "n">>>>),
                    Ws(1)>>,
       replacement |-> <<"y", "o", "u", SP, "w", "e", "r", "e", SP, "d", "e", "s", "c", "r",
              "i", "b", "e", "d", SP, "a", "s", SP, "a", SP>>],
      [pattern |-> <<Lit(<<"a", "c", "t">>),
                    Ws(1),
                    Lit(<<"a", "s">>),
                    Ws(1),
                    Alt(<<<<"a">>, <<"a", "n">>>>),
                    Ws(1)>>,
       replacement |-> <<"d", "e", "s", "c", "r", "i", "b", "e", "d", SP, "a", "s", SP, "a",
              SP>>],
      [pattern |-> <<Lit(<<"o", "u", "t", "p", "u", "t">>),
                    Ws(1),
                    Lit(<<"o", "n", "l", "y">>),
                    Ws(0),
                    Lit(<<":">>)>>,
       replacement |-> Filtered],
      [pattern |-> <<Lit(<<"r", "e", "s", "p", "o", "n", "d">>),
                    Ws(1),
                    Lit(<<"o", "n", "l", "y">>),
                    Ws(1),
                    Lit(<<"w", "i", "t", "h">>)>>,
       replacement |-> Filtered]>>

\* text[:n]
Prefix(text, n) == SubSeq(text, 1, IF n < Len(text) THEN n ELSE Len(text))

\* the number of white-space characters from index i on
WsRun(text, i) ==
    LowestOr({j \in i..(Len(text) - 1) : At(text, j) \notin Whitespace}, Len(text)) - i

\* re.match of the remaining pattern at index i of the lower-cased text:
\* the index behind the match, or -1.  \s+ and \s* are greedy and give
\* characters back, alternatives are tried in order, an optional group is
\* tried before its omission.
RECURSIVE Match(_, _, _)
RECURSIVE Greedy(_, _, _, _, _)
RECURSIVE FirstAlt(_, _, _, _)
Match(text, i, pat) ==
    IF pat = <<>> THEN i
    ELSE LET it == Head(pat)
             rest == Tail(pat)
         IN  CASE it.t = "lit" ->
                    IF StartsWithAt(text, i, it.s)
                    THEN Match(text, i + Len(it.s), rest)
                    ELSE -1
               [] it.t = "ws" -> Greedy(text, i, WsRun(text, i), it.least, rest)
               [] it.t = "alt" -> FirstAlt(text, i, it.opts, rest)
               [] OTHER ->
                    IF Match(text, i, it.items \o rest) # -1
                    THEN Match(text, i, it.items \o rest)
                    ELSE Match(text, i, rest)

Greedy(text, i, n, least, rest) ==
    IF n < least THEN -1
    ELSE IF Match(text, i + n, rest) # -1 THEN Match(text, i + n, rest)
    ELSE Greedy(text, i, n - 1, least, rest)

FirstAlt(text, i, opts, rest) ==
    IF opts = <<>> THEN -1
    ELSE IF Match(text, i, <<Lit(Head(opts))>> \o rest) # -1
    THEN Match(text, i, <<Lit(Head(opts))>> \o rest)
    ELSE FirstAlt(text, i, Tail(opts), rest)

\* re.sub(pattern, replacement, text): the matches from left to right,
\* none overlapping another
RECURSIVE SubFrom(_, _, _, _, _)
SubFrom(text, low, pat, replacement, i) ==
    LET at == LowestOr({j \in i..(Len(text) - 1) : Match(low, j, pat) # -1}, -1)
    IN  IF at = -1 THEN SliceFrom(text, i)
        ELSE Slice(text, i, at) \o replacement
             \o SubFrom(text, low, pat, replacement, Match(low, at, pat))

Sub(pat, replacement, text) == SubFrom(text, Lower(text), pat, replacement, 0)

\* lines 48-49: for pattern, replacement in injection_patterns
RECURSIVE ApplyPatterns(_, _)
ApplyPatterns(text, k) ==
    IF k > Len(InjectionPatterns) THEN text
    ELSE ApplyPatterns(Sub(InjectionPatterns[k].pattern,
                           InjectionPatterns[k].replacement, text), k + 1)

\* "` ` `"
EscapedFence == <<BACKTICK, SP, BACKTICK, SP, BACKTICK>>

\* "\n\n[TRUNCATED - content too long]"
TruncatedNote ==
    <<NL, NL, "[", "T", "R", "U", "N", "C", "A", "T", "E", "D", SP, "-",
      SP, "c", "o", "n", "t", "e", "n", "t", SP, "t", "o", "o", SP,
      "l", "o", "n", "g", "]">>

\* the default of max_length
DefaultMaxLength == 50000

\* label[:100] and max_length=100 in sanitize_label
LabelMaxLength == 100

\* an argument: None, or a str
NoText == [none |-> TRUE, text |-> <<>>]

Text(text) == [none |-> FALSE, text |-> text]

\* sanitize_for_prompt, lines 19-51
SanitizeForPrompt(input, max_length) ==
    IF input.none THEN <<>>
    ELSE LET cut == IF Len(input.text) > max_length
                    THEN Prefix(input.text, max_length) \o TruncatedNote
                    ELSE input.text
         IN  ApplyPatterns(Replace(cut, Fence, EscapedFence), 1)

\* sanitize_label, lines 57-62
SanitizeLabel(input) ==
    IF input.none \/ input.text = <<>> THEN <<>>
    ELSE SanitizeForPrompt(Text(Prefix(input.text, LabelMaxLength)), LabelMaxLength)

\* the longest run of backticks in the texts given to sanitize_for_prompt
MaxRun == 8

\* the most repetitions of a unit in a label
MaxRepeat == 12

\* k backticks
Ticks(k) == [j \in 1..k |-> BACKTICK]

\* unit * k
Repeat(unit, k) == [j \in 1..(k * Len(unit)) |-> unit[((j - 1) % Len(unit)) + 1]]

\* texts with a run of backticks, alone or between other text, one of
\* them a phrase the filters rewrite
PromptTexts ==
    {pre \o Ticks(k) \o post :
        pre \in {<<>>, <<"a">>},
        k \in 0..MaxRun,
        post \in {<<>>,
                  <<SP, "A", "c", "t", SP, "a", "s", SP, "a", "n", SP, "x">>,
                  <<"o", "v", "e", "r", "r", "i", "d", "e", ":">>}}

\* the max_length arguments: one that cuts the texts, and the default
MaxLengths == {4, DefaultMaxLength}

\* what labels are made of: plain characters, backticks, and phrases the
\* filters rewrite
PlainUnits ==
    {<<"a", "a", "a", "a", "a", "a", "a", "a", "a", "a", "a", "a", "a", "a",
       "a", "a", "a", "a", "a", "a">>,
     <<"b", "u", "g", "-">>}

LabelUnits ==
    PlainUnits
    \cup {<<BACKTICK, BACKTICK, BACKTICK, BACKTICK, BACKTICK, BACKTICK, BACKTICK,
            BACKTICK, BACKTICK>>,
          <<"a", "c", "t", SP, "a", "s", SP, "a", SP>>,
          <<"Y", "o", "u", SP, "A", "r", "e", SP, "N", "o", "w", SP, "A", SP>>,
          <<"i", "g", "n", "o", "r", "e", SP, "p", "r", "e", "v", "i", "o", "u",
            "s", SP, "i", "n", "s", "t", "r", "u", "c", "t", "i", "o",
            "n", "s", SP>>}

SanitizeInit ==
    /\ Parked
    /\ ex = ExOff
    /\ rc = RcOff
    /\ lk = LkOff
    /\ bt = BtOff
    /\ sv = SvOff
    /\ rj = RjOff
    /\ gh = GhOff
    /\ \/ \E input \in {NoText} \cup {Text(t) : t \in PromptTexts},
             max_length \in MaxLengths :
             sn = [phase |-> "on", pc |-> "input", fn |-> "sanitize_for_prompt",
                   input |-> input, max_length |-> max_length, out |-> <<>>]
       \/ \E unit \in LabelUnits, k \in 0..MaxRepeat :
             sn = [phase |-> "on", pc |-> "input", fn |-> "sanitize_label",
                   input |-> Text(Repeat(unit, k)), max_length |-> LabelMaxLength,
                   out |-> <<>>]

SnSanitizeForPrompt ==
    /\ sn.phase = "on" /\ sn.pc = "input" /\ sn.fn = "sanitize_for_prompt"
    /\ sn' = [sn EXCEPT !.pc = "done",
                        !.out = SanitizeForPrompt(sn.input, sn.max_length)]
    /\ UNCHANGED <<pvars, ex, rc, lk, bt, sv, rj, gh>>

SnSanitizeLabel ==
    /\ sn.phase = "on" /\ sn.pc = "input" /\ sn.fn = "sanitize_label"
    /\ sn' = [sn EXCEPT !.pc = "done", !.out = SanitizeLabel(sn.input)]
    /\ UNCHANGED <<pvars, ex, rc, lk, bt, sv, rj, gh>>

SanitizeNext ==
    \/ SnSanitizeForPrompt
    \/ SnSanitizeLabel

SanitizeSpec == SanitizeInit /\ [][SanitizeNext]_vars

-----------------------------------------------------------------------------
(* Properties of the sanitizers, under SanitizeSpec *)

SnDone(fn) == sn.phase = "on" /\ sn.pc = "done" /\ sn.fn = fn

\* the text holds three consecutive backticks
HasFence(text) == Find(text, Fence, 0) # -1

\* C39: for every input text the output of sanitize_for_prompt holds no
\* sequence of three consecutive backticks, also for inputs with runs of
\* four, five or more backticks.
C39_NoFenceInOutput ==
    SnDone("sanitize_for_prompt") => ~HasFence(sn.out)

\* the part of C39 that holds: a text whose runs of backticks are at most
\* four long comes out without three consecutive backticks.
C39_NoFenceFromShortRuns ==
    (SnDone("sanitize_for_prompt") /\ Find(sn.input.text, Ticks(5), 0) = -1)
        => ~HasFence(sn.out)

\* five backticks have come out as "` ` ```"
C39_WitnessFiveBackticks ==
    /\ SnDone("sanitize_for_prompt")
    /\ sn.input = Text(Ticks(5)) /\ sn.max_length = DefaultMaxLength
    /\ sn.out = EscapedFence \o <<BACKTICK, BACKTICK>>
    /\ HasFence(sn.out)

\* the bound of tests/test_sanitize.py, test_long_label_truncated
LabelBound == 150

\* C40: for every label sanitize_label returns a string of at most 150
\* characters, whatever the label holds (runs of backticks and phrases the
\* injection filters rewrite included).
C40_LabelAtMost150 ==
    SnDone("sanitize_label") => Len(sn.out) <= LabelBound

\* the part of C40 that holds: a label of plain characters comes back as
\* its first 100 characters, and no label grows beyond twice that.
C40_PlainLabelCut ==
    SnDone("sanitize_label") =>
        /\ Len(sn.out) <= 2 * LabelMaxLength
        /\ (\E unit \in PlainUnits, k \in 0..MaxRepeat : sn.input.text = Repeat(unit, k))
            => sn.out = Prefix(sn.input.text, LabelMaxLength)

\* a label of 108 backticks has come back 166 characters long
C40_WitnessBacktickLabel ==
    /\ SnDone("sanitize_label")
    /\ sn.input.text = Ticks(108)
    /\ Len(sn.out) = 166

====
